---- MODULE Spec2Model ----
(***************************************************************************)
(* A model of bw_processing: the Datapackage resource/data engine          *)
(* (datapackage.py), the reindexing module (indexing.py) and the           *)
(* mask-merging module (merging.py).                                       *)
(*                                                                         *)
(* Eight specifications share the module:                                  *)
(*   Spec       the life of one Datapackage: add, get, delete, finalize    *)
(*   SpecView   a Datapackage, its lazy slots and a FilteredDatapackage    *)
(*   SpecIndex  reset_index / reindex over array and table contents        *)
(*   SpecDirty  the dirty set: reset_index, reindex, write_modified, delete *)
(*   SpecMerge  merge_datapackages_with_mask over two packages             *)
(*   SpecCover  the loop of greedy_set_cover (unique_fields.py)            *)
(*   SpecInterface  the interfaces of a package: dehydrate and rehydrate   *)
(*   SpecProxy  the calls of one Proxy on its stream                       *)
(***************************************************************************)
EXTENDS Integers, Sequences, FiniteSets, TLC

VARIABLES
    fsKind,        \* class of self.fs: "memory" (MemoryFS) or "dir" (OSFS)
    fsClosed,      \* self.fs.close() has been called
    resources,     \* self.metadata["resources"]: list of resource records
    data,          \* self.data: list of data objects
    finalized,     \* self._finalized
    modified,      \* self._modified (positions, 0-based as in the code)
    fdp,           \* the FilteredDatapackage built last (its two lists)
    finalizeDone,  \* finalize_serialization has returned normally
    second,        \* a second Datapackage (its two lists)
    merged,        \* what merge_datapackages_with_mask raised and returned
    cover,         \* a call of greedy_set_cover: its arguments and locals
    stream         \* an open stream, and the calls of a Proxy that holds it

dpVars == <<fsKind, fsClosed, resources, data, finalized, modified, fdp,
            finalizeDone, second, merged, cover, stream>>

----------------------------------------------------------------------------
(* Bounds *)

MaxResources == 3    \* longest resource list explored
MaxRows == 1         \* longest array

----------------------------------------------------------------------------
(* Python values *)

None == "None"

\* dict.get(key): None when the key is absent
Get(r, key) == IF key \in DOMAIN r THEN r[key] ELSE None

\* list indexing with Python's negative indices; the list is 1-based here
PyIndexOk(s, i) == (i >= 0 /\ i < Len(s)) \/ (i < 0 /\ -i <= Len(s))
PyAt(i, n) == IF i >= 0 THEN i + 1 ELSE n + i + 1

Range(s) == {s[i] : i \in 1..Len(s)}

\* [o for i, o in enumerate(s) if i in keep]   (keep holds 0-based positions)
RECURSIVE SelectPositions(_, _, _)
SelectPositions(s, keep, i) ==
    IF i > Len(s) THEN <<>>
    ELSE IF (i - 1) \in keep
         THEN <<s[i]>> \o SelectPositions(s, keep, i + 1)
         ELSE SelectPositions(s, keep, i + 1)

RemoveAt(s, k) == SubSeq(s, 1, k - 1) \o SubSeq(s, k + 1, Len(s))

----------------------------------------------------------------------------
(* Data objects.  Every object has an identity, unique among the objects   *)
(* alive at one time as Python's id() is: the name of the resource it was  *)
(* made for and a number.  val is what the object holds: the columns of an *)
(* indices array, the rows of a table; NoVal where the model does not      *)
(* follow the contents.  A Proxy remembers what it reads.                  *)

NoVal == <<>>
Obj(type, id, val) == [type |-> type, id |-> id, val |-> val]
ProxyObj(reads, id, val) ==
    [type |-> "proxy", id |-> id, reads |-> reads, val |-> val]
IsProxy(o) == o.type = "proxy"

\* an indices array (dtype INDICES_DTYPE): one (row, col) pair per row
Indices(row, col) ==
    [i \in 1..Len(row) |-> [row |-> row[i], col |-> col[i]]]
IndicesLabels == {"row", "col"}
\* one row of a metadata table with the columns id, a and c
FrameRow(id, a, c) == [id |-> id, a |-> a, c |-> c]

Ids(dat) == {dat[i].id : i \in 1..Len(dat)}

\* the identity of an object newly built for the resource called name: one
\* that no live object has
FreshId(name, live) ==
    <<name, CHOOSE n \in 1..(Cardinality(live) + 1) :
                /\ <<name, n>> \notin live
                /\ \A k \in 1..(n - 1) : <<name, k>> \in live>>

\* Proxy.__call__: rewinds the stream and calls the target, which builds a
\* new object from the bytes read
ProxyCall(p, id) == Obj(p.reads, id, p.val)

----------------------------------------------------------------------------
(* Resource records *)

Matrix == "sa_matrix"

\* check_suffix(name, suffix) for names that do not already end in suffix
CheckSuffix(name, suffix) == name \o suffix

\* The key "category" ("vector" or "array"), which no operation reads, is
\* left out of the records.
NumpyResource(name, group, kind, nrows) ==
    [profile |-> "data-resource", format |-> "npy",
     mediatype |-> "application/octet-stream", name |-> name,
     matrix |-> Matrix, kind |-> kind, path |-> CheckSuffix(name, ".npy"),
     group |-> group, nrows |-> nrows]

InterfaceResource(group, nrows) ==
    [profile |-> "interface", name |-> group \o ".data", group |-> group,
     kind |-> "data", matrix |-> Matrix, nrows |-> nrows]

CsvResource(name, valid_for) ==
    [profile |-> "data-resource", mediatype |-> "text/csv",
     path |-> CheckSuffix(name, ".csv"), name |-> name,
     valid_for |-> valid_for]

JsonResource(name, valid_for) ==
    [profile |-> "data-resource", mediatype |-> "application/json",
     path |-> CheckSuffix(name, ".json"), name |-> name,
     valid_for |-> valid_for]


----------------------------------------------------------------------------
(* The names and arguments the calls are made with *)

GroupNames == {"X", "Y"}
KindNames == {"indices", "data", "distributions", "flip"}
MetadataNames == {"m"}
ResourceNames ==
    {g \o "." \o k : g \in GroupNames, k \in KindNames} \cup MetadataNames

\* str.endswith(".data") over the names above
EndsWithData(name) == name \in {g \o ".data" : g \in GroupNames}

\* an optional array argument that was not passed (None)
NoArray == [given |-> FALSE]
\* data_array: its number of dimensions and its number of rows
DataArray(ndim, len) == [given |-> TRUE, ndim |-> ndim, len |-> len]
\* n rows holding a, the last one holding b
Rows(n, a, b) == [i \in 1..n |-> IF i = n THEN b ELSE a]
\* distributions_array: the uncertainty_type of each row
DistributionsArray(ut) == [given |-> TRUE, ut |-> ut]
\* flip_array: element type and element values
FlipArray(dtype, vals) == [given |-> TRUE, dtype |-> dtype, vals |-> vals]

\* the data arrays passed along with nrows indices: a vector or a matrix
\* of that many rows
DataArrays(nrows) == {DataArray(ndim, nrows) : ndim \in 1..2}
\* the distributions arrays passed along with nrows indices: a real
\* distribution (2) in the last row, or no uncertainty (1) in any row
DistributionsArrays(nrows) ==
    {DistributionsArray(Rows(nrows, 1, last)) : last \in 1..2}
\* the flip arrays passed along with nrows indices: the last row flipped,
\* as booleans or as integers, or integers with no row flipped
FlipArrays(nrows) ==
    {FlipArray(dtype, Rows(nrows, 0, 1)) : dtype \in {"bool", "int"}}
        \cup {FlipArray("int", Rows(nrows, 0, 0))}

\* the nrows keyword a caller may put among **kwargs
NoKeyword == [given |-> FALSE]
Keyword(value) == [given |-> TRUE, value |-> value]
NrowsKeywords(nrows) == {NoKeyword, Keyword(nrows + 1)}

\* kwargs.update keeping the nrows of the caller
KwargsUpdateKept(nrows_kw, indices_len) ==
    IF nrows_kw.given THEN nrows_kw.value ELSE indices_len

\* kwargs.update({..., "nrows": len(indices_array)}): kwargs["nrows"] after
\* the update, whatever the caller passed
KwargsUpdate(nrows_kw, indices_len) == indices_len

\* the indices_array of nrows rows the add_* calls pass: (i, i) in row i
IndicesArray(nrows) ==
    Indices([i \in 1..nrows |-> i - 1], [i \in 1..nrows |-> i - 1])
\* the array of nrows rows passed for a resource of the given kind
ArrayContents(kind, nrows) ==
    IF kind = "indices" THEN IndicesArray(nrows)
    ELSE [i \in 1..nrows |-> i - 1]
\* the dataframe the add_csv_metadata calls pass
DataFrame == << FrameRow(0, "p", "u") >>

\* ndarray.sum() over a sequence of numbers
RECURSIVE Sum(_)
Sum(s) == IF s = <<>> THEN 0 ELSE s[1] + Sum(Tail(s))

\* the count of the rows without any uncertainty_type
CountBelowOne(dist) ==
    Cardinality({i \in 1..Len(dist.ut) : dist.ut[i] < 1})

\* (distributions_array["uncertainty_type"] < 2).sum()
CountBelowTwo(dist) ==
    Cardinality({i \in 1..Len(dist.ut) : dist.ut[i] < 2})

\* the group the metadata resources are added for
ValidForGroups == {"X"}
\* valid_for of a CSV metadata resource: (group, column) pairs
ValidForLists == {<< <<g, "row">> >> : g \in ValidForGroups}

----------------------------------------------------------------------------
(* The package while one call runs: the two lists, the identities held by  *)
(* objects outside the package, and the exception raised so far ("ok" when *)
(* none)                                                                   *)

Running(res, dat, held) ==
    [res |-> res, dat |-> dat, held |-> held, status |-> "ok"]
New(st, name) == FreshId(name, Ids(st.dat) \cup st.held)
Raise(st, exc) == [st EXCEPT !.status = exc]

\* Datapackage._check_length_consistency
CheckLengthConsistency(res, dat) ==
    IF Len(res) # Len(dat) THEN "LengthMismatch" ELSE "ok"

\* Datapackage._prepare_modifications
PrepareModifications(res, dat, fin) ==
    IF CheckLengthConsistency(res, dat) # "ok" THEN "LengthMismatch"
    ELSE IF fin THEN "Closed"
    ELSE "ok"

\* DatapackageBase.groups: the labels, in order of first occurrence
RECURSIVE GroupLabels(_, _)
GroupLabels(res, i) ==
    IF i = 0 THEN <<>>
    ELSE LET before == GroupLabels(res, i - 1)
             g == Get(res[i], "group")
         IN IF g = None THEN before
            ELSE IF g \in Range(before) THEN before
            ELSE Append(before, g)

\* the labels with the one met last in front
GroupsNewestFirst(res) ==
    LET labels == GroupLabels(res, Len(res))
    IN [k \in 1..Len(labels) |-> labels[Len(labels) + 1 - k]]

\* DatapackageBase.groups: the keys of the dict, in its order
Groups(res) == GroupLabels(res, Len(res))

\* Datapackage._prepare_name
PrepareName(name, res) ==
    LET existing_names == {res[i].name : i \in 1..Len(res)}
        existing_groups == Range(Groups(res))
    IN IF name \in existing_names THEN "NonUnique"
       ELSE IF name \in existing_groups THEN "NonUnique"
       ELSE "ok"

\* _add_numpy_array_resource forgetting self.resources.append
AddNumpyArrayResourceDataOnly(st, fs, writes, name, group, kind, nrows, keep_proxy) ==
    IF st.status # "ok" THEN st
    ELSE IF fs # "memory" /\ ~writes THEN Raise(st, "FSError")
    ELSE IF keep_proxy THEN Raise(st, "AttributeError")
    ELSE [st EXCEPT
            !.dat = Append(st.dat, Obj("array", New(st, name),
                                       ArrayContents(kind, nrows)))]

\* Datapackage._add_numpy_array_resource.  writes: the backend accepts the
\* write.  With keep_proxy the file name, a Path, goes to file_reader, whose
\* first statement calls resource.endswith, which a Path does not have.
AddNumpyArrayResource(st, fs, writes, name, group, kind, nrows, keep_proxy) ==
    IF st.status # "ok" THEN st
    ELSE IF fs # "memory" /\ ~writes THEN Raise(st, "FSError")
    ELSE IF keep_proxy THEN Raise(st, "AttributeError")
    ELSE [st EXCEPT
            !.dat = Append(st.dat, Obj("array", New(st, name),
                                       ArrayContents(kind, nrows))),
            !.res = Append(st.res,
                           NumpyResource(name, group, kind, nrows))]

\* the flip_array block shared by the four add_* methods for arrays
AddFlip(st, fs, writes, name, nrows, flip, keep_proxy) ==
    IF st.status # "ok" \/ ~flip.given THEN st
    ELSE IF Sum(flip.vals) = 0 THEN st
    ELSE IF flip.dtype # "bool" THEN Raise(st, "WrongDatatype")
    ELSE IF Len(flip.vals) # nrows THEN Raise(st, "ShapeMismatch")
    ELSE AddNumpyArrayResource(st, fs, writes, name \o ".flip", name, "flip",
                               nrows, keep_proxy)

\* the interface record and object appended by add_dynamic_vector/array
AddInterface(st, name, nrows) ==
    IF st.status # "ok" THEN st
    ELSE [st EXCEPT
            !.dat = Append(st.dat,
                           Obj("interface", New(st, name \o ".data"),
                               NoVal)),
            !.res = Append(st.res, InterfaceResource(name, nrows))]

\* Datapackage.add_persistent_vector
AddPersistentVectorRun(st, fs, fin, writes, name, nrows, d, dist, flip, keep_proxy) ==
    LET pm == PrepareModifications(st.res, st.dat, fin)
        pn == PrepareName(name, st.res)
        s1 == AddNumpyArrayResource(st, fs, writes, name \o ".indices", name,
                                    "indices", nrows, keep_proxy)
        s2 == IF s1.status # "ok" \/ ~d.given THEN s1
              ELSE IF d.ndim > 1 THEN Raise(s1, "ShapeMismatch")
              ELSE IF d.len # nrows THEN Raise(s1, "ShapeMismatch")
              ELSE AddNumpyArrayResource(s1, fs, writes, name \o ".data",
                                         name, "data", nrows, keep_proxy)
        s3 == IF s2.status # "ok" \/ ~dist.given THEN s2
              ELSE IF CountBelowTwo(dist) < Len(dist.ut)
                   THEN IF Len(dist.ut) # nrows
                        THEN Raise(s2, "ShapeMismatch")
                        ELSE AddNumpyArrayResource(
                                 s2, fs, writes, name \o ".distributions",
                                 name, "distributions", nrows, keep_proxy)
                   ELSE s2
    IN IF pm # "ok" THEN Raise(st, pm)
       ELSE IF pn # "ok" THEN Raise(st, pn)
       ELSE AddFlip(s3, fs, writes, name, nrows, flip, keep_proxy)

\* Datapackage.add_persistent_array
AddPersistentArrayRun(st, fs, fin, writes, name, nrows, d, flip, keep_proxy) ==
    LET pm == PrepareModifications(st.res, st.dat, fin)
        pn == PrepareName(name, st.res)
        s1 == AddNumpyArrayResource(st, fs, writes, name \o ".indices", name,
                                    "indices", nrows, keep_proxy)
        s2 == IF s1.status # "ok" THEN s1
              ELSE IF d.ndim # 2 THEN Raise(s1, "ShapeMismatch")
              ELSE IF d.len # nrows THEN Raise(s1, "ShapeMismatch")
              ELSE AddNumpyArrayResource(s1, fs, writes, name \o ".data",
                                         name, "data", nrows, keep_proxy)
    IN IF pm # "ok" THEN Raise(st, pm)
       ELSE IF pn # "ok" THEN Raise(st, pn)
       ELSE AddFlip(s2, fs, writes, name, nrows, flip, keep_proxy)

\* Datapackage.add_dynamic_vector
AddDynamicVectorRun(st, fs, fin, writes, name, nrows, flip, keep_proxy) ==
    LET pm == PrepareModifications(st.res, st.dat, fin)
        pn == PrepareName(name, st.res)
        s1 == AddNumpyArrayResource(st, fs, writes, name \o ".indices", name,
                                    "indices", nrows, keep_proxy)
        s2 == AddFlip(s1, fs, writes, name, nrows, flip, keep_proxy)
    IN IF pm # "ok" THEN Raise(st, pm)
       ELSE IF pn # "ok" THEN Raise(st, pn)
       ELSE AddInterface(s2, name, nrows)

\* Datapackage.add_dynamic_array: an all-false flip array counts as absent
AddDynamicArrayRun(st, fs, fin, writes, name, nrows, flip, keep_proxy) ==
    LET pm == PrepareModifications(st.res, st.dat, fin)
        fl == IF flip.given /\ Sum(flip.vals) = 0 THEN NoArray ELSE flip
        pn == PrepareName(name, st.res)
        s1 == AddNumpyArrayResource(st, fs, writes, name \o ".indices", name,
                                    "indices", nrows, keep_proxy)
        s2 == AddFlip(s1, fs, writes, name, nrows, fl, keep_proxy)
    IN IF pm # "ok" THEN Raise(st, pm)
       ELSE IF pn # "ok" THEN Raise(st, pn)
       ELSE AddInterface(s2, name, nrows)

\* Datapackage.add_csv_metadata
AddCsvMetadataRun(st, fin, writes, name, valid_for) ==
    LET groups == Range(Groups(st.res))
        pn == PrepareName(name, st.res)
        pm == PrepareModifications(st.res, st.dat, fin)
    IN IF \E i \in 1..Len(valid_for) : valid_for[i][1] \notin groups
       THEN Raise(st, "AssertionError")
       ELSE IF pn # "ok" THEN Raise(st, pn)
       ELSE IF pm # "ok" THEN Raise(st, pm)
       ELSE IF ~writes THEN Raise(st, "FSError")
       ELSE [st EXCEPT
               !.dat = Append(st.dat, Obj("frame", New(st, name), DataFrame)),
               !.res = Append(st.res, CsvResource(name, valid_for))]

\* Datapackage.add_json_metadata
AddJsonMetadataRun(st, fin, writes, name, valid_for) ==
    LET groups == Range(Groups(st.res))
        pm == PrepareModifications(st.res, st.dat, fin)
    IN IF valid_for \notin groups THEN Raise(st, "AssertionError")
       ELSE IF pm # "ok" THEN Raise(st, pm)
       ELSE IF ~writes THEN Raise(st, "FSError")
       ELSE [st EXCEPT
               !.dat = Append(st.dat, Obj("json", New(st, name), NoVal)),
               !.res = Append(st.res, JsonResource(name, valid_for))]


----------------------------------------------------------------------------
(* DatapackageBase: lookup, get, delete, views, interfaces *)

NoObj == Obj("none", <<"", 0>>, NoVal)
\* UndefinedInterface(): the placeholder of a dehydrated interface
Undefined == Obj("undefined", <<"", 0>>, NoVal)

\* what a call returns: the exception raised ("ok" when none), the 1-based
\* position it resolved, the object returned, the Proxy invocations made
Outcome(op, status, pos, obj, invoked) ==
    [op |-> op, status |-> status, pos |-> pos, obj |-> obj,
     invoked |-> invoked]
Done(op, status) == Outcome(op, status, 0, NoObj, 0)

\* name_or_index arguments: an int or a str
ByIndex(k) == [isint |-> TRUE, index |-> k]
ByName(n) == [isint |-> FALSE, name |-> n]

\* DatapackageBase._get_index followed by the subscript self.xxx[index] of
\* its callers: the exception raised, or "ok"
GetIndexStatus(res, name_or_index) ==
    IF name_or_index.isint
    THEN IF name_or_index.index >= Len(res) THEN "IndexError"
         ELSE IF ~PyIndexOk(res, name_or_index.index) THEN "IndexError"
         ELSE "ok"
    ELSE LET indices == {i \in 1..Len(res) : res[i].name = name_or_index.name}
         IN IF indices = {} THEN "KeyError"
            ELSE IF Cardinality(indices) > 1 THEN "NonUnique"
            ELSE "ok"

\* the 1-based position the lookup resolves to, when GetIndexStatus is "ok"
GetIndex(res, name_or_index) ==
    IF name_or_index.isint
    THEN PyAt(name_or_index.index, Len(res))
    ELSE CHOOSE i \in 1..Len(res) : res[i].name = name_or_index.name

\* get_resource returning the realized value without storing it
GetResourceRunNoStore(res, dat, held, name_or_index) ==
    LET status == GetIndexStatus(res, name_or_index)
        index == GetIndex(res, name_or_index)
    IN IF status # "ok"
       THEN [dat |-> dat, out |-> Done("get_resource", status)]
       ELSE IF IsProxy(dat[index])
       THEN LET realized == ProxyCall(dat[index],
                                      FreshId(res[index].name,
                                              Ids(dat) \cup held))
            IN [dat |-> dat,
                out |-> Outcome("get_resource", "ok", index, realized, 1)]
       ELSE [dat |-> dat,
             out |-> Outcome("get_resource", "ok", index, dat[index], 0)]

\* DatapackageBase.get_resource on the lists (res, dat): the new data list
\* and the outcome; held are the identities held outside these lists
GetResourceRun(res, dat, held, name_or_index) ==
    LET status == GetIndexStatus(res, name_or_index)
        index == GetIndex(res, name_or_index)
    IN IF status # "ok"
       THEN [dat |-> dat, out |-> Done("get_resource", status)]
       ELSE IF IsProxy(dat[index])
       THEN LET realized == ProxyCall(dat[index],
                                      FreshId(res[index].name,
                                              Ids(dat) \cup held))
            IN [dat |-> [dat EXCEPT ![index] = realized],
                out |-> Outcome("get_resource", "ok", index, realized, 1)]
       ELSE [dat |-> dat,
             out |-> Outcome("get_resource", "ok", index, dat[index], 0)]

\* the positions (0-based) filter_by_attribute keeps
ToInclude(res, key, value) ==
    {i \in 0..(Len(res) - 1) : Get(res[i + 1], key) = value}

\* filter_by_attribute keeping the data objects of the first records
\* instead of those of the records kept
FilterByAttributeRunFirstData(res, dat, key, value) ==
    [resources |-> SelectPositions(res, ToInclude(res, key, value), 1),
     data |-> SubSeq(dat, 1, Cardinality(ToInclude(res, key, value)))]

\* DatapackageBase.filter_by_attribute: the view's two lists
FilterByAttributeRun(res, dat, key, value) ==
    [resources |-> SelectPositions(res, ToInclude(res, key, value), 1),
     data |-> SelectPositions(dat, ToInclude(res, key, value), 1)]

\* exclude dropping the records that match any of the pairs
IndicesToIncludeAll(res, filters) ==
    {i \in 0..(Len(res) - 1) :
        \A key \in DOMAIN filters : Get(res[i + 1], key) # filters[key]}

\* the positions (0-based) exclude keeps
IndicesToInclude(res, filters) ==
    {i \in 0..(Len(res) - 1) :
        \E key \in DOMAIN filters : Get(res[i + 1], key) # filters[key]}

\* DatapackageBase.exclude: the view's two lists
ExcludeRun(res, dat, filters) ==
    [resources |-> SelectPositions(res, IndicesToInclude(res, filters), 1),
     data |-> SelectPositions(dat, IndicesToInclude(res, filters), 1)]

\* DatapackageBase._dehydrate_interfaces: the new data list
DehydrateInterfaces(res, dat) ==
    [i \in 1..Len(dat) |->
        IF i <= Len(res) /\ res[i].profile = "interface"
        THEN Undefined
        ELSE dat[i]]

\* DatapackageBase.dehydrated_interfaces
RECURSIVE DehydratedInterfaces(_, _, _)
DehydratedInterfaces(res, dat, i) ==
    IF i > Len(res) THEN <<>>
    ELSE IF dat[i].type = "undefined"
         THEN <<Get(res[i], "group")>> \o DehydratedInterfaces(res, dat, i + 1)
         ELSE DehydratedInterfaces(res, dat, i + 1)

\* rehydrate_interface looking up the name as it was given
RehydrateInterfaceRunAsGiven(res, dat, held, name_or_index, initialize_with_config) ==
    LET status == GetIndexStatus(res, name_or_index)
        index == GetIndex(res, name_or_index)
    IN IF status # "ok" THEN [dat |-> dat, status |-> status]
       ELSE IF initialize_with_config
       THEN [dat |-> dat, status |-> "KeyError"]
       ELSE [dat |-> [dat EXCEPT ![index] =
                        Obj("interface",
                            FreshId(res[index].name, Ids(dat) \cup held),
                            NoVal)],
             status |-> "ok"]

\* DatapackageBase.rehydrate_interface with a new interface object as
\* resource: the data list it leaves and the exception it raises; no
\* record of the model has a config
RehydrateInterfaceRun(res, dat, held, name_or_index, initialize_with_config) ==
    LET noi == IF ~name_or_index.isint /\ ~EndsWithData(name_or_index.name)
               THEN ByName(name_or_index.name \o ".data")
               ELSE name_or_index
        status == GetIndexStatus(res, noi)
        index == GetIndex(res, noi)
    IN IF status # "ok" THEN [dat |-> dat, status |-> status]
       ELSE IF initialize_with_config
       THEN [dat |-> dat, status |-> "KeyError"]
       ELSE [dat |-> [dat EXCEPT ![index] =
                        Obj("interface",
                            FreshId(res[index].name, Ids(dat) \cup held),
                            NoVal)],
             status |-> "ok"]

----------------------------------------------------------------------------
(* The package a behaviour starts from: created empty, or loaded from a    *)
(* directory holding one dynamic vector X and its CSV metadata m           *)

LoadedResources ==
    << NumpyResource("X.indices", "X", "indices", 1),
       InterfaceResource("X", 1),
       CsvResource("m", << <<"X", "row">> >>) >>

\* what file_reader builds for a record
ReadType(r) == IF r.mediatype = "text/csv" THEN "frame"
               ELSE IF r.mediatype = "application/json" THEN "json"
               ELSE "array"

\* what the file of a record holds
FileContents(r) ==
    IF r.mediatype = "text/csv" THEN DataFrame
    ELSE IF r.mediatype = "application/json" THEN NoVal
    ELSE ArrayContents(r.kind, r.nrows)

\* Datapackage._load_all
LoadAll(res, proxy) ==
    [i \in 1..Len(res) |->
        IF "path" \notin DOMAIN res[i] THEN Undefined
        ELSE IF proxy
        THEN ProxyObj(ReadType(res[i]), <<res[i].name, 1>>,
                      FileContents(res[i]))
        ELSE Obj(ReadType(res[i]), <<res[i].name, 1>>,
                 FileContents(res[i]))]

NoView == [resources |-> <<>>, data |-> <<>>]
\* no second package, no merge made
NoPackage == [resources |-> <<>>, data |-> <<>>]
NoMerge == [status |-> "none", resources |-> <<>>, data |-> <<>>]

\* no call of greedy_set_cover
NoCover == [data |-> <<>>, exclude |-> {}, raise_error |-> FALSE,
            fields |-> {}, chosen |-> {}, status |-> "none"]

\* no stream is open
NoStream == [content |-> <<>>, pos |-> 0, calls |-> <<>>]

\* DatapackageBase.__init__ and the rest of the model's bookkeeping
InitCommon ==
    /\ cover = NoCover
    /\ stream = NoStream
    /\ fsClosed = FALSE
    /\ finalized = FALSE
    /\ modified = {}
    /\ fdp = NoView
    /\ finalizeDone = FALSE
    /\ second = NoPackage
    /\ merged = NoMerge

\* create_datapackage / Datapackage._create
InitCreate ==
    /\ fsKind \in {"memory", "dir"}
    /\ resources = <<>>
    /\ data = <<>>
    /\ InitCommon

\* load_datapackage / Datapackage._load
InitLoad ==
    /\ fsKind = "dir"
    /\ resources = LoadedResources
    /\ \E proxy \in BOOLEAN : data = LoadAll(LoadedResources, proxy)
    /\ InitCommon

Init == InitCreate \/ InitLoad




----------------------------------------------------------------------------
(* The calls on the Datapackage *)

\* whether the backend accepts a write or a remove: a closed backend may
\* refuse it
BackendAccepts == IF fsClosed THEN BOOLEAN ELSE {TRUE}

\* the name_or_index arguments tried on a list of n records: every index
\* from one below the first valid one to one above the last, every name
NameOrIndexArgs(n) ==
    {ByIndex(k) : k \in (-(n + 1))..n} \cup {ByName(m) : m \in ResourceNames}
\* rehydrate_interface is called with a group label or a resource name
InterfaceArgs ==
    {ByName(n) : n \in GroupNames \cup {g \o ".data" : g \in GroupNames}
                        \cup {"m"}}

\* with keep_proxy the call ends at its first resource, whatever the arrays
Given(arrays, keep_proxy) ==
    IF keep_proxy THEN {NoArray} ELSE arrays \cup {NoArray}

\* the nrows keywords tried: a keyword goes with the calls that pass none
\* of the optional arrays
KeywordsWith(optional_given, nrows) ==
    IF optional_given THEN {NoKeyword} ELSE NrowsKeywords(nrows)

\* an add_* call ends: the lists are as the run left them
EndAdd(st) ==
    /\ Len(st.res) <= MaxResources
    /\ resources' = st.res
    /\ data' = st.dat
    /\ UNCHANGED <<stream, cover, second, merged, fsKind, fsClosed, finalized, modified, fdp, finalizeDone>>

Start == Running(resources, data, Ids(fdp.data))

AddPersistentVector ==
    \E name \in GroupNames, nrows \in {MaxRows}, keep_proxy \in BOOLEAN,
       writes \in BackendAccepts :
      \E d \in Given(DataArrays(nrows), keep_proxy),
         dist \in Given(DistributionsArrays(nrows), keep_proxy),
         flip \in Given(FlipArrays(nrows), keep_proxy) :
       \E nrows_kw \in KeywordsWith(d.given \/ dist.given \/ flip.given, nrows) :
        EndAdd(AddPersistentVectorRun(Start, fsKind, finalized, writes, name,
                                      KwargsUpdate(nrows_kw, nrows), d, dist,
                                      flip, keep_proxy))

AddPersistentArray ==
    \E name \in GroupNames, nrows \in {MaxRows}, keep_proxy \in BOOLEAN,
       writes \in BackendAccepts :
      \E d \in IF keep_proxy THEN {DataArray(2, nrows)}
                             ELSE DataArrays(nrows),
         flip \in Given(FlipArrays(nrows), keep_proxy) :
       \E nrows_kw \in KeywordsWith(flip.given, nrows) :
        EndAdd(AddPersistentArrayRun(Start, fsKind, finalized, writes, name,
                                     KwargsUpdate(nrows_kw, nrows), d, flip,
                                     keep_proxy))

AddDynamicVector ==
    \E name \in GroupNames, nrows \in {MaxRows}, keep_proxy \in BOOLEAN,
       writes \in BackendAccepts :
      \E flip \in Given(FlipArrays(nrows), keep_proxy) :
       \E nrows_kw \in KeywordsWith(flip.given, nrows) :
        EndAdd(AddDynamicVectorRun(Start, fsKind, finalized, writes, name,
                                   KwargsUpdate(nrows_kw, nrows), flip,
                                   keep_proxy))

AddDynamicArray ==
    \E name \in GroupNames, nrows \in {MaxRows}, keep_proxy \in BOOLEAN,
       writes \in BackendAccepts :
      \E flip \in Given(FlipArrays(nrows), keep_proxy) :
       \E nrows_kw \in KeywordsWith(flip.given, nrows) :
        EndAdd(AddDynamicArrayRun(Start, fsKind, finalized, writes, name,
                                  KwargsUpdate(nrows_kw, nrows), flip,
                                  keep_proxy))

AddCsvMetadata ==
    \E name \in MetadataNames, valid_for \in ValidForLists,
       writes \in BackendAccepts :
        EndAdd(AddCsvMetadataRun(Start, finalized, writes, name, valid_for))

AddJsonMetadata ==
    \E name \in MetadataNames, valid_for \in ValidForGroups,
       writes \in BackendAccepts :
        EndAdd(AddJsonMetadataRun(Start, finalized, writes, name, valid_for))

\* DatapackageBase.get_resource on the package
GetResource ==
    \E name_or_index \in NameOrIndexArgs(Len(resources)) :
        LET run == GetResourceRun(resources, data, Ids(fdp.data),
                                  name_or_index)
        IN /\ data' = run.dat
           /\ UNCHANGED <<stream, cover, second, merged, fsKind, fsClosed, resources, finalized, modified,
                          fdp, finalizeDone>>

\* del_resource without the test of self._modified
DelResourceRunUnchecked(res, dat, mod, name_or_index, removes) ==
    LET status == GetIndexStatus(res, name_or_index)
        index == GetIndex(res, name_or_index)
        same(exc) == [res |-> res, dat |-> dat, removed |-> {},
                      status |-> exc]
    IN IF status # "ok" THEN same(status)
       ELSE IF "path" \in DOMAIN res[index] /\ ~removes THEN same("FSError")
       ELSE [res |-> RemoveAt(res, index), dat |-> RemoveAt(dat, index),
             removed |-> IF "path" \in DOMAIN res[index]
                         THEN {res[index].path} ELSE {},
             status |-> "ok"]

\* DatapackageBase.del_resource: the two lists it leaves, the paths it has
\* the backend remove, the exception it raises.  removes: the backend
\* accepts the remove
DelResourceRun(res, dat, mod, name_or_index, removes) ==
    LET status == GetIndexStatus(res, name_or_index)
        index == GetIndex(res, name_or_index)
        same(exc) == [res |-> res, dat |-> dat, removed |-> {},
                      status |-> exc]
    IN IF mod # {} THEN same("PotentialInconsistency")
       ELSE IF status # "ok" THEN same(status)
       ELSE IF "path" \in DOMAIN res[index] /\ ~removes THEN same("FSError")
       ELSE [res |-> RemoveAt(res, index), dat |-> RemoveAt(dat, index),
             removed |-> IF "path" \in DOMAIN res[index]
                         THEN {res[index].path} ELSE {},
             status |-> "ok"]

DelResource ==
    \E name_or_index \in NameOrIndexArgs(Len(resources)),
       removes \in BackendAccepts :
        LET run == DelResourceRun(resources, data, modified, name_or_index,
                                  removes)
        IN /\ resources' = run.res
           /\ data' = run.dat
           /\ UNCHANGED <<stream, cover, second, merged, fsKind, fsClosed, finalized, modified, fdp,
                          finalizeDone>>

\* DatapackageBase.del_resource_group: as DelResourceRun
DelResourceGroupRun(res, dat, mod, name, removes) ==
    LET indices == {i \in 0..(Len(res) - 1) : Get(res[i + 1], "group") = name}
        keep == (0..(Len(res) - 1)) \ indices
        same(exc) == [res |-> res, dat |-> dat, removed |-> {},
                      status |-> exc]
    IN IF mod # {} THEN same("PotentialInconsistency")
       ELSE IF ~removes /\ \E i \in indices : "path" \in DOMAIN res[i + 1]
       THEN same("FSError")
       ELSE [res |-> SelectPositions(res, keep, 1),
             dat |-> SelectPositions(dat, keep, 1),
             removed |-> {res[i + 1].path :
                             i \in {k \in indices :
                                       "path" \in DOMAIN res[k + 1]}},
             status |-> "ok"]

DelResourceGroup ==
    \E name \in GroupNames, removes \in BackendAccepts :
        LET run == DelResourceGroupRun(resources, data, modified, name,
                                       removes)
        IN /\ resources' = run.res
           /\ data' = run.dat
           /\ UNCHANGED <<stream, cover, second, merged, fsKind, fsClosed, finalized, modified, fdp,
                          finalizeDone>>

\* DatapackageBase.rehydrate_interface; no record of the model has a config
\* key, so initialize_with_config ends in KeyError
RehydrateInterface ==
    \E name_or_index \in InterfaceArgs, initialize_with_config \in BOOLEAN :
        LET run == RehydrateInterfaceRun(resources, data, Ids(fdp.data),
                                         name_or_index,
                                         initialize_with_config)
        IN /\ data' = run.dat
           /\ UNCHANGED <<stream, cover, second, merged, fsKind, fsClosed, resources,
                          finalized, modified, fdp, finalizeDone>>

\* Datapackage.finalize_serialization: the data list it leaves and the
\* exception it raises; _finalized is not assigned
FinalizeSerializationRun(res, dat, fs, fin, writes) ==
    LET dehydrated == DehydrateInterfaces(res, dat)
    IN IF fin THEN [dat |-> dat, status |-> "Closed"]
       ELSE IF fs = "memory" THEN [dat |-> dat, status |-> "ValueError"]
       ELSE IF CheckLengthConsistency(res, dehydrated) # "ok"
            THEN [dat |-> dehydrated, status |-> "LengthMismatch"]
       ELSE IF ~writes THEN [dat |-> dehydrated, status |-> "FSError"]
       ELSE [dat |-> dehydrated, status |-> "ok"]

FinalizeSerialization ==
    \E writes \in BackendAccepts :
        LET run == FinalizeSerializationRun(resources, data, fsKind,
                                            finalized, writes)
        IN /\ data' = run.dat
           /\ fsClosed' = (fsClosed \/ run.status = "ok")
           /\ finalizeDone' = (finalizeDone \/ run.status = "ok")
           /\ UNCHANGED <<stream, cover, second, merged, fsKind, resources, finalized, modified, fdp>>

----------------------------------------------------------------------------
(* Views *)

FilterKeys == {"group", "kind", "profile"}
FilterValues == {"X", "indices", "data", "interface"}

\* the filters argument of exclude: a dict with at most two keys
ExcludeFilters ==
    UNION {[ks -> FilterValues] : ks \in {k \in SUBSET FilterKeys :
                                            Cardinality(k) <= 2}}

\* the source package is left alone by the calls that build or use a view
SourceUntouched ==
    UNCHANGED <<stream, cover, second, merged, fsKind, fsClosed, resources, data, finalized, modified,
                finalizeDone>>

FilterByAttribute ==
    \E key \in FilterKeys, value \in FilterValues \cup {None} :
        /\ fdp' = FilterByAttributeRun(resources, data, key, value)
        /\ SourceUntouched

Exclude ==
    \E filters \in ExcludeFilters :
        /\ fdp' = ExcludeRun(resources, data, filters)
        /\ SourceUntouched

\* get_resource on a view whose data list is the very list of the source:
\* the realized object lands in the source's slot as well
FdpGetResourceRunSharedList(dat, view, name_or_index) ==
    LET run == GetResourceRun(view.resources, view.data, Ids(dat),
                              name_or_index)
    IN [data |-> IF run.out.status # "ok" THEN dat
                 ELSE [i \in 1..Len(dat) |->
                          IF dat[i] = view.data[run.out.pos]
                          THEN run.dat[run.out.pos] ELSE dat[i]],
        fdp |-> [view EXCEPT !.data = run.dat],
        out |-> run.out]

\* DatapackageBase.get_resource called on the view made by
\* filter_by_attribute or exclude, whose self.data is a list of its own
\* next to the data list dat of the source: both data lists afterwards and
\* the outcome
FdpGetResourceRun(dat, view, name_or_index) ==
    LET run == GetResourceRun(view.resources, view.data, Ids(dat),
                              name_or_index)
    IN [data |-> dat,
        fdp |-> [view EXCEPT !.data = run.dat],
        out |-> run.out]

\* DatapackageBase.get_resource on the view
FdpGetResource ==
    \E name_or_index \in NameOrIndexArgs(Len(fdp.resources)) :
        LET run == FdpGetResourceRun(data, fdp, name_or_index)
        IN /\ fdp # NoView
           /\ fdp' = run.fdp
           /\ data' = run.data
           /\ UNCHANGED <<stream, cover, second, merged, fsKind, fsClosed, resources,
                          finalized, modified, finalizeDone>>

----------------------------------------------------------------------------

Next ==
    \/ AddPersistentVector
    \/ AddPersistentArray
    \/ AddDynamicVector
    \/ AddDynamicArray
    \/ AddCsvMetadata
    \/ AddJsonMetadata
    \/ GetResource
    \/ DelResource
    \/ DelResourceGroup
    \/ RehydrateInterface
    \/ FinalizeSerialization

Spec == Init /\ [][Next]_dpVars

----------------------------------------------------------------------------
(* Claims on the life of one package (Spec) *)

\* C1: whatever calls were made on the package, the ones that raised
\* included, the lists resources and data have the same length.
C1_SameLength == Len(resources) = Len(data)

\* a package that was filled, some interface dehydrated by a successful
\* finalize_serialization
C1_Witness ==
    /\ finalizeDone
    /\ Len(resources) = 3
    /\ \E i \in 1..Len(resources) : Get(resources[i], "group") = "Y"
    /\ \E i \in 1..Len(data) : data[i].type = "undefined"

\* C2: no two records of the package have the same name, and no group
\* label is the name of a record.
C2_NamesUnique ==
    /\ \A i, j \in 1..Len(resources) :
            i # j => resources[i].name # resources[j].name
    /\ \A g \in Range(Groups(resources)), i \in 1..Len(resources) :
            resources[i].name # g

\* the outcome of an add_* call: Closed raised, both lists as they were
ClosedUnchanged(st) ==
    /\ st.status = "Closed"
    /\ st.res = resources
    /\ st.dat = data

\* C3: once finalize_serialization has succeeded, every finalize_serialization
\* and every add_* call raises Closed and leaves both lists as they were.
C3_ClosedAfterFinalize ==
    finalizeDone =>
        \A writes \in BOOLEAN :
            /\ LET run == FinalizeSerializationRun(resources, data, fsKind,
                                                   finalized, writes)
               IN run.status = "Closed" /\ run.dat = data
            /\ \A name \in GroupNames, nrows \in {MaxRows} :
                  /\ ClosedUnchanged(AddPersistentVectorRun(
                         Start, fsKind, finalized, writes, name, nrows,
                         NoArray, NoArray, NoArray, FALSE))
                  /\ ClosedUnchanged(AddPersistentArrayRun(
                         Start, fsKind, finalized, writes, name, nrows,
                         DataArray(2, nrows), NoArray, FALSE))
                  /\ ClosedUnchanged(AddDynamicVectorRun(
                         Start, fsKind, finalized, writes, name, nrows,
                         NoArray, FALSE))
                  /\ ClosedUnchanged(AddDynamicArrayRun(
                         Start, fsKind, finalized, writes, name, nrows,
                         NoArray, FALSE))
            /\ \A name \in MetadataNames :
                  /\ \A valid_for \in ValidForLists :
                        ClosedUnchanged(AddCsvMetadataRun(
                            Start, finalized, writes, name, valid_for))
                  /\ \A valid_for \in ValidForGroups :
                        ClosedUnchanged(AddJsonMetadataRun(
                            Start, finalized, writes, name, valid_for))

----------------------------------------------------------------------------
(* SpecView: a package that is filled or loaded, its lazy slots, and the   *)
(* view built from it last                                                 *)

NextView ==
    \/ AddPersistentVector
    \/ AddDynamicVector
    \/ AddCsvMetadata
    \/ GetResource
    \/ FilterByAttribute
    \/ Exclude
    \/ FdpGetResource

SpecView == Init /\ [][NextView]_dpVars

\* the 1-based positions of the lists of the package
Positions == 1..Len(resources)

\* view holds, in source order, the records of the package at the
\* positions kept and, next to each, the data object of that position
IsSelection(view, kept) ==
    /\ Len(view.resources) = Cardinality(kept)
    /\ Len(view.data) = Cardinality(kept)
    /\ \A i \in kept :
          LET k == Cardinality({j \in kept : j <= i})
          IN /\ view.resources[k] = resources[i]
             /\ view.data[k] = data[i]

C9_FilterView ==
    \A key \in FilterKeys, value \in FilterValues \cup {None} :
        LET view == FilterByAttributeRun(resources, data, key, value)
            kept == {i \in Positions : Get(resources[i], key) = value}
        IN /\ IsSelection(view, kept)
           /\ \A i \in kept :
                 LET k == Cardinality({j \in kept : j <= i})
                     got == GetResourceRun(view.resources, view.data,
                                           Ids(data), ByIndex(k - 1))
                 IN ~IsProxy(data[i]) =>
                        got.out.obj = data[i] /\ got.out.invoked = 0

\* a view of two of three records, made after the package realized a Proxy
C9_Witness ==
    /\ Len(resources) = 3
    /\ Len(fdp.resources) = 2
    /\ \E key \in FilterKeys, value \in FilterValues \cup {None} :
          fdp = FilterByAttributeRun(resources, data, key, value)
    /\ \E k \in 1..Len(fdp.data) : fdp.data[k].id[2] = 2

\* C10: exclude(filters) builds a view of exactly the records that differ
\* from filters on some key, a missing key differing, in source order and
\* next to their data objects; for one pair the views of exclude and of
\* filter_by_attribute split the records of the package between them.
C10_ExcludeView ==
    \A filters \in ExcludeFilters :
        LET view == ExcludeRun(resources, data, filters)
            kept == {i \in Positions :
                        \E key \in DOMAIN filters :
                            Get(resources[i], key) # filters[key]}
        IN /\ IsSelection(view, kept)
           /\ \A key \in DOMAIN filters :
                 DOMAIN filters = {key} =>
                    LET other == FilterByAttributeRun(resources, data, key,
                                                      filters[key])
                        dropped == Positions \ kept
                    IN IsSelection(other, dropped)

\* a view that dropped one record of three for matching both pairs given,
\* another record matching only one of them
C10_Witness ==
    /\ Len(resources) = 3
    /\ Len(fdp.resources) = 2
    /\ \E filters \in ExcludeFilters :
          /\ Cardinality(DOMAIN filters) = 2
          /\ fdp = ExcludeRun(resources, data, filters)
          /\ \E i \in Positions, key \in DOMAIN filters :
                /\ Get(resources[i], key) = filters[key]
                /\ \E other \in DOMAIN filters :
                      Get(resources[i], other) # filters[other]

----------------------------------------------------------------------------
(* indexing.py: reset_index and reindex *)

\* a column of an indices array: the position of the array in the data
\* list and the label of the column
ColumnAt(dat, ref) ==
    [i \in 1..Len(dat[ref[1]].val) |-> dat[ref[1]].val[i][ref[2]]]
SetColumn(dat, ref, column) ==
    [dat EXCEPT ![ref[1]].val =
        [i \in 1..Len(@) |-> [@[i] EXCEPT ![ref[2]] = column[i]]]]

\* the package once a get_resource has run
AfterLookup(st, run) == [st EXCEPT !.dat = run.dat, !.status = run.out.status]

RECURSIVE GetCsvColumns(_, _, _, _)

\* indexing._get_csv_data, one turn of the loop over metadata["valid_for"]:
\* run is its get_resource, whose result is subscripted by the label
GetCsvColumn(st, run, valid_for, i, arrays) ==
    IF run.out.status # "ok"
    THEN [st |-> AfterLookup(st, run), arrays |-> arrays]
    ELSE IF run.out.obj.type # "array"
    THEN [st |-> Raise(AfterLookup(st, run), "KeyError"), arrays |-> arrays]
    ELSE IF valid_for[i][2] \notin IndicesLabels
    THEN [st |-> Raise(AfterLookup(st, run), "ValueError"),
          arrays |-> arrays]
    ELSE GetCsvColumns(AfterLookup(st, run), valid_for, i + 1,
                       Append(arrays, <<run.out.pos, valid_for[i][2]>>))

\* indexing._get_csv_data, the loop over metadata["valid_for"]: one
\* get_resource and one subscript by the label for each entry, duplicates
\* included
GetCsvColumns(st, valid_for, i, arrays) ==
    IF i > Len(valid_for) \/ st.status # "ok"
    THEN [st |-> st, arrays |-> arrays]
    ELSE GetCsvColumn(st,
                      GetResourceRun(st.res, st.dat, st.held,
                                     ByName(valid_for[i][1] \o ".indices")),
                      valid_for, i, arrays)

\* what indexing._get_csv_data returns: the package after the lookups, the
\* position of the table (df), the columns (arrays) and their 0-based
\* positions
GetCsvResult(df, cols) ==
    [st |-> cols.st, df |-> df, arrays |-> cols.arrays,
     indices |-> {cols.arrays[k][1] - 1 : k \in 1..Len(cols.arrays)}]

\* indexing._get_csv_data once get_resource(metadata_name) has run
GetCsvTable(st, run) ==
    LET st1 == AfterLookup(st, run)
        none == [st |-> st1, df |-> 0, arrays |-> <<>>, indices |-> {}]
    IN IF st1.status # "ok" THEN none
       ELSE IF run.out.obj.type # "frame"
       THEN [none EXCEPT !.st = Raise(st1, "ValueError")]
       ELSE GetCsvResult(run.out.pos,
                         GetCsvColumns(st1, st.res[run.out.pos].valid_for,
                                       1, <<>>))

\* indexing._get_csv_data
GetCsvData(st, metadata_name) ==
    GetCsvTable(st, GetResourceRun(st.res, st.dat, st.held,
                                   ByName(metadata_name)))

\* reset_index, the loop over arrays: each entry of the list is rewritten
\* through mapper, whose keys are the values found before the loop
RECURSIVE ResetArrays(_, _, _, _)
ResetArrays(dat, arrays, k, unique_indices) ==
    IF k > Len(arrays) THEN [dat |-> dat, status |-> "ok"]
    ELSE LET array == ColumnAt(dat, arrays[k])
             new == [x \in 1..Len(array) |->
                        Cardinality({u \in unique_indices : u < array[x]})]
         IN IF \E x \in 1..Len(array) : array[x] \notin unique_indices
            THEN [dat |-> dat, status |-> "KeyError"]
            ELSE ResetArrays(SetColumn(dat, arrays[k], new), arrays, k + 1,
                             unique_indices)

\* reset_index: np.unique over the concatenated columns
UniqueIndices(dat, arrays) ==
    UNION {Range(ColumnAt(dat, arrays[k])) : k \in 1..Len(arrays)}

\* reset_index marking the metadata table as well
ResetIndexLoopWithTable(csv, mod, loop) ==
    IF loop.status # "ok"
    THEN [dat |-> loop.dat, modified |-> mod, status |-> loop.status]
    ELSE [dat |-> loop.dat,
          modified |-> mod \cup csv.indices \cup {csv.df - 1},
          status |-> "ok"]

\* reset_index after its loop: the dirty set grows when no entry failed
ResetIndexLoop(csv, mod, loop) ==
    IF loop.status # "ok"
    THEN [dat |-> loop.dat, modified |-> mod, status |-> loop.status]
    ELSE [dat |-> loop.dat, modified |-> mod \cup csv.indices,
          status |-> "ok"]

\* reset_index once _get_csv_data has returned csv
ResetIndexOn(csv, mod, fin) ==
    LET pm == PrepareModifications(csv.st.res, csv.st.dat, fin)
    IN IF csv.st.status # "ok"
       THEN [dat |-> csv.st.dat, modified |-> mod, status |-> csv.st.status]
       ELSE IF pm # "ok"
       THEN [dat |-> csv.st.dat, modified |-> mod, status |-> pm]
       ELSE ResetIndexLoop(csv, mod,
                ResetArrays(csv.st.dat, csv.arrays, 1,
                            UniqueIndices(csv.st.dat, csv.arrays)))

\* indexing.reset_index: the data list and dirty set it leaves, and the
\* exception it raises
ResetIndexRun(res, dat, held, mod, fin, metadata_name) ==
    ResetIndexOn(GetCsvData(Running(res, dat, held), metadata_name), mod, fin)

\* the fields argument of reindex: None, or a list of column names
NoFields == [given |-> FALSE]
Fields(names) == [given |-> TRUE, names |-> names]

\* sorted([x for x in df.columns if x != id_field_datapackage]) for the
\* columns id, a, c of the tables
SortedColumns(id_field_datapackage) ==
    SelectSeq(<<"a", "c", "id">>, LAMBDA x : x # id_field_datapackage)

\* tuple([row.get(field) for field in fields])
KeyOf(row, fields) == [k \in 1..Len(fields) |-> Get(row, fields[k])]

\* dest_mapper keeping the id of the first record of a key
DestMapperFirst(data_iterable, fields, key) ==
    LET rows == {j \in 1..Len(data_iterable) :
                    KeyOf(data_iterable[j], fields) = key}
    IN IF rows = {} THEN [found |-> "absent", index |-> 0]
       ELSE [found |-> "one",
             index |-> data_iterable[CHOOSE j \in rows :
                                        \A k \in rows : j <= k].id]

\* dest_mapper[key] after the loop over data_iterable: absent, the NonUnique
\* marker, or the id of the only record with that key
DestMapper(data_iterable, fields, key) ==
    LET rows == {j \in 1..Len(data_iterable) :
                    KeyOf(data_iterable[j], fields) = key}
    IN IF rows = {} THEN [found |-> "absent", index |-> 0]
       ELSE IF Cardinality(rows) > 1 THEN [found |-> "NonUnique", index |-> 0]
       ELSE [found |-> "one",
             index |-> data_iterable[CHOOSE j \in rows : TRUE].id]

\* reindex, the loop over the rows of the table: the exception raised at
\* the first row without a single match, "ok" when every row has one
RECURSIVE MatchRows(_, _, _, _)
MatchRows(df, data_iterable, fields, i) ==
    IF i > Len(df) THEN "ok"
    ELSE LET m == DestMapper(data_iterable, fields, KeyOf(df[i], fields))
         IN IF m.found = "absent" THEN "KeyError"
            ELSE IF m.found = "NonUnique" THEN "NonUnique"
            ELSE MatchRows(df, data_iterable, fields, i + 1)

\* mapper[index] after that loop: the last row with that id decides
Mapper(df, data_iterable, fields, id_field, index) ==
    LET last == CHOOSE i \in 1..Len(df) :
                    /\ df[i][id_field] = index
                    /\ \A j \in (i + 1)..Len(df) : df[j][id_field] # index
    IN DestMapper(data_iterable, fields, KeyOf(df[last], fields)).index

\* reindex, the loops over arrays and their elements: array[i] is
\* replaced in place, element by element, until a value is no key of mapper
RECURSIVE ReindexArrays(_, _, _, _, _, _, _, _)
ReindexArrays(dat, arrays, k, i, df, data_iterable, fields, id_field) ==
    IF k > Len(arrays) THEN [dat |-> dat, status |-> "ok"]
    ELSE LET array == ColumnAt(dat, arrays[k])
         IN IF i > Len(array)
            THEN ReindexArrays(dat, arrays, k + 1, 1, df, data_iterable,
                               fields, id_field)
            ELSE IF \A r \in 1..Len(df) : df[r][id_field] # array[i]
            THEN [dat |-> dat, status |-> "KeyError"]
            ELSE ReindexArrays(
                     SetColumn(dat, arrays[k],
                               [array EXCEPT ![i] =
                                   Mapper(df, data_iterable, fields,
                                          id_field, array[i])]),
                     arrays, k, i + 1, df, data_iterable, fields, id_field)

\* reindex, the last statements: the id column of the table is mapped and
\* the dirty set grows, when no array element failed
ReindexLoop(csv, mod, df, data_iterable, fields, id_field, loop) ==
    IF loop.status # "ok"
    THEN [dat |-> loop.dat, modified |-> mod, status |-> loop.status]
    ELSE [dat |-> [loop.dat EXCEPT ![csv.df].val =
                      [i \in 1..Len(df) |->
                          [df[i] EXCEPT ![id_field] =
                              Mapper(df, data_iterable, fields, id_field,
                                     @)]]],
          modified |-> mod \cup csv.indices \cup {csv.df - 1},
          status |-> "ok"]

\* reindex on the table df: the two mapper loops, then the arrays
ReindexTable(csv, mod, df, data_iterable, fields, id_field) ==
    LET rows == MatchRows(df, data_iterable, fields, 1)
    IN IF rows # "ok"
       THEN [dat |-> csv.st.dat, modified |-> mod, status |-> rows]
       ELSE ReindexLoop(csv, mod, df, data_iterable, fields, id_field,
                ReindexArrays(csv.st.dat, csv.arrays, 1, 1, df,
                              data_iterable, fields, id_field))

\* reindex once _get_csv_data has returned csv
ReindexOn(csv, mod, data_iterable, fields, id_field) ==
    IF csv.st.status # "ok"
    THEN [dat |-> csv.st.dat, modified |-> mod, status |-> csv.st.status]
    ELSE IF id_field \notin {"id", "a", "c"}
    THEN [dat |-> csv.st.dat, modified |-> mod, status |-> "KeyError"]
    ELSE ReindexTable(csv, mod, csv.st.dat[csv.df].val, data_iterable,
                      fields, id_field)

\* indexing.reindex with id_field_destination left at "id": the data list
\* and dirty set it leaves, and the exception it raises
ReindexRun(res, dat, held, mod, metadata_name, data_iterable, fields_arg, id_field_datapackage) ==
    ReindexOn(GetCsvData(Running(res, dat, held), metadata_name), mod,
              data_iterable,
              IF fields_arg.given THEN fields_arg.names
              ELSE SortedColumns(id_field_datapackage),
              id_field_datapackage)

----------------------------------------------------------------------------
(* SpecIndex: a package holding the indices array of group X and two       *)
(* metadata tables, m and n, on which reset_index and reindex are called   *)

\* the values of the indices columns and the ids of the tables
IndexValues == 0..2
TableIds == 1..2

\* valid_for of the table m; an entry may occur more than once
IndexValidFor ==
    { << <<"X", "row">> >>, << <<"X", "col">> >>,
      << <<"X", "row">>, <<"X", "col">> >>,
      << <<"X", "row">>, <<"X", "row">> >>,
      << <<"X", "row">>, <<"X", "row">>, <<"X", "col">> >> }

\* the table m: two rows
Frames ==
    {<< FrameRow(1, "p", "u"), FrameRow(id, a, c) >> :
        id \in TableIds, a \in {"p", "q"}, c \in {"u", "v"}}

\* data_iterable: up to two records with the keys id, a and c, or one
\* record for p followed by two for q
DestinationRecords ==
    {FrameRow(id, a, "u") : id \in TableIds, a \in {"p", "q"}}
DataIterables ==
    {<<>>} \cup {<<r>> : r \in DestinationRecords}
           \cup {<<r, t>> : r \in DestinationRecords, t \in DestinationRecords}
           \cup {<<FrameRow(2, "p", "u"), FrameRow(id, "q", "u"),
                    FrameRow(2, "q", "u")>> : id \in TableIds}

FieldsArgs == {NoFields, Fields(<<"a">>), Fields(<<"c", "a">>)}

IndexMetadataNames == {"m", "n", "X.indices"}

InitIndex ==
    /\ fsKind = "memory"
    /\ InitCommon
    /\ \E valid_for \in IndexValidFor :
         resources = << NumpyResource("X.indices", "X", "indices", MaxRows),
                        CsvResource("m", valid_for),
                        CsvResource("n", << <<"X", "col">> >>) >>
    /\ \E row \in [1..MaxRows -> IndexValues],
          col \in [1..MaxRows -> IndexValues], frame \in Frames :
         data = << Obj("array", <<"X.indices", 1>>, Indices(row, col)),
                   Obj("frame", <<"m", 1>>, frame),
                   Obj("frame", <<"n", 1>>, DataFrame) >>

ResetIndex ==
    \E metadata_name \in IndexMetadataNames :
        LET run == ResetIndexRun(resources, data, Ids(fdp.data), modified,
                                 finalized, metadata_name)
        IN /\ data' = run.dat
           /\ modified' = run.modified
           /\ UNCHANGED <<stream, cover, second, merged, fsKind, fsClosed, resources, finalized, fdp,
                          finalizeDone>>

Reindex ==
    \E metadata_name \in IndexMetadataNames,
       data_iterable \in DataIterables, fields \in FieldsArgs :
        LET run == ReindexRun(resources, data, Ids(fdp.data), modified,
                              metadata_name, data_iterable, fields, "id")
        IN /\ data' = run.dat
           /\ modified' = run.modified
           /\ UNCHANGED <<stream, cover, second, merged, fsKind, fsClosed, resources, finalized, fdp,
                          finalizeDone>>

NextIndex ==
    \/ ResetIndex
    \/ Reindex

SpecIndex == InitIndex /\ [][NextIndex]_dpVars

\* the position of the only record called name
PositionOf(name) == CHOOSE i \in Positions : resources[i].name = name

\* the columns the valid_for of the table called metadata_name names
NamedColumns(metadata_name) ==
    LET valid_for == resources[PositionOf(metadata_name)].valid_for
    IN {<<PositionOf(valid_for[k][1] \o ".indices"), valid_for[k][2]>> :
           k \in 1..Len(valid_for)}

\* every column of every indices array of the package
AllColumns ==
    {<<i, label>> : i \in {j \in Positions : data[j].type = "array"},
                    label \in IndicesLabels}

\* C5: after reset_index through a table, every value of the columns its
\* valid_for names is its 0-based rank among the distinct values those
\* columns held together, so that they hold exactly 0..N-1, and every other
\* column is as it was.
C5_ResetRanks ==
    \A metadata_name \in {"m", "n"} :
        LET run == ResetIndexRun(resources, data, Ids(fdp.data), modified,
                                 finalized, metadata_name)
            named == NamedColumns(metadata_name)
            values == UNION {Range(ColumnAt(data, c)) : c \in named}
            Rank(v) == Cardinality({u \in values : u < v})
        IN run.status = "ok" =>
              /\ \A c \in named :
                    ColumnAt(run.dat, c) =
                        [x \in 1..Len(ColumnAt(data, c)) |->
                            Rank(ColumnAt(data, c)[x])]
              /\ UNION {Range(ColumnAt(run.dat, c)) : c \in named}
                    = 0..(Cardinality(values) - 1)
              /\ \A c \in AllColumns \ named :
                    ColumnAt(run.dat, c) = ColumnAt(data, c)

\* C6: after a successful reindex, every value x of the columns named by
\* valid_for and every id x of the table is the id of a destination record
\* whose key over fields is that of a table row with id x; fields left out
\* stands for the columns a and c in that order.
C6_ReindexIds ==
    \A data_iterable \in DataIterables, fields_arg \in FieldsArgs :
        LET run == ReindexRun(resources, data, Ids(fdp.data), modified, "m",
                              data_iterable, fields_arg, "id")
            pos == PositionOf("m")
            df == data[pos].val
            fields == IF fields_arg.given THEN fields_arg.names
                      ELSE <<"a", "c">>
            Destinations(x) ==
                {data_iterable[j].id : j \in
                    {d \in 1..Len(data_iterable) :
                        \E r \in 1..Len(df) :
                            /\ df[r].id = x
                            /\ KeyOf(data_iterable[d], fields)
                                   = KeyOf(df[r], fields)}}
        IN run.status = "ok" =>
              /\ \A c \in NamedColumns("m") :
                    \A x \in 1..Len(ColumnAt(data, c)) :
                        ColumnAt(run.dat, c)[x]
                            \in Destinations(ColumnAt(data, c)[x])
              /\ \A r \in 1..Len(df) :
                    run.dat[pos].val[r].id \in Destinations(df[r].id)
              /\ ~fields_arg.given =>
                    run = ReindexRun(resources, data, Ids(fdp.data),
                                     modified, "m", data_iterable,
                                     Fields(<<"a", "c">>), "id")

----------------------------------------------------------------------------
(* Datapackage.write_modified and the dirty set self._modified *)

\* the positions in mod in the order the loop visits them: a set of small
\* ints is iterated in ascending order
Ascending(mod) ==
    [k \in 1..Cardinality(mod) |->
        CHOOSE i \in mod : Cardinality({j \in mod : j <= i}) = k]

\* what file_writer raises for the resource at the 0-based position index
FileWriterStatus(res, dat, index, writes) ==
    IF index + 1 > Len(dat) \/ index + 1 > Len(res) THEN "IndexError"
    ELSE IF "path" \notin DOMAIN res[index + 1] THEN "KeyError"
    ELSE IF ~writes THEN "FSError"
    ELSE IF res[index + 1].mediatype = "text/csv"
            /\ dat[index + 1].type # "frame"
    THEN "AssertionError"
    ELSE IF res[index + 1].mediatype = "application/octet-stream"
            /\ dat[index + 1].type # "array"
    THEN "ValueError"
    ELSE "ok"

\* write_modified, the loop over self._modified: the (path, contents) pairs
\* handed to the backend and the exception raised
RECURSIVE WriteLoop(_, _, _, _, _, _)
WriteLoop(res, dat, todo, k, writes, written) ==
    IF k > Len(todo) THEN [written |-> written, status |-> "ok"]
    ELSE IF FileWriterStatus(res, dat, todo[k], writes) # "ok"
    THEN [written |-> written,
          status |-> FileWriterStatus(res, dat, todo[k], writes)]
    ELSE WriteLoop(res, dat, todo, k + 1, writes,
                   written \cup {<<res[todo[k] + 1].path,
                                   dat[todo[k] + 1].val>>})

\* write_modified once its loop has ended
WriteModifiedDone(mod, loop) ==
    [written |-> loop.written,
     modified |-> IF loop.status = "ok" THEN {} ELSE mod,
     status |-> loop.status]

\* write_modified writing every resource that has a file
WriteModifiedRunAll(res, dat, mod, writes) ==
    WriteModifiedDone(mod,
        [written |-> {<<res[i].path, dat[i].val>> :
                         i \in {j \in 1..Len(res) : "path" \in DOMAIN res[j]}},
         status |-> "ok"])

\* Datapackage.write_modified: what it writes, the dirty set it leaves and
\* the exception it raises
WriteModifiedRun(res, dat, mod, writes) ==
    WriteModifiedDone(mod, WriteLoop(res, dat, Ascending(mod), 1, writes, {}))

WriteModified ==
    \E writes \in BackendAccepts :
        /\ modified' = WriteModifiedRun(resources, data, modified,
                                        writes).modified
        /\ UNCHANGED <<stream, cover, second, merged, fsKind, fsClosed, resources, data,
                       finalized, fdp, finalizeDone>>

----------------------------------------------------------------------------
(* SpecDirty: a package with the persistent vector X and its metadata      *)
(* table m, changed by reset_index and reindex, written and pruned         *)

\* the table m of these packages: two rows with different keys, or two
\* rows with one key
DirtyFrames ==
    {<< FrameRow(1, "p", "u"), FrameRow(2, a, "u") >> : a \in {"p", "q"}}
\* valid_for of the table m
DirtyValidFor ==
    { << <<"X", "row">> >>, << <<"X", "row">>, <<"X", "col">> >> }

InitDirty ==
    /\ fsKind \in {"memory", "dir"}
    /\ InitCommon
    /\ \E valid_for \in DirtyValidFor :
         resources = << NumpyResource("X.indices", "X", "indices", MaxRows),
                        NumpyResource("X.data", "X", "data", MaxRows),
                        CsvResource("m", valid_for) >>
    /\ \E row \in [1..MaxRows -> TableIds], col \in [1..MaxRows -> TableIds],
          frame \in DirtyFrames :
         data = << Obj("array", <<"X.indices", 1>>, Indices(row, col)),
                   Obj("array", <<"X.data", 1>>,
                       ArrayContents("data", MaxRows)),
                   Obj("frame", <<"m", 1>>, frame) >>

NextDirty ==
    \/ ResetIndex
    \/ Reindex
    \/ WriteModified
    \/ DelResource
    \/ DelResourceGroup

SpecDirty == InitDirty /\ [][NextDirty]_dpVars

----------------------------------------------------------------------------
(* merging.py: merge_datapackages_with_mask *)

\* the rows of s at which mask holds keep
SelectRows(s, mask, keep) ==
    SelectPositions(s, {i \in 0..(Len(s) - 1) : mask[i + 1] = keep}, 1)

\* [item for item, check in zip(obj, mask) if check]: zip stops at the end
\* of the shorter of the two
ZipRows(s, mask, keep) ==
    SelectPositions(s, {i \in 0..(Len(s) - 1) :
                            i + 1 <= Len(mask) /\ mask[i + 1] = keep}, 1)

\* merging.mask_resource with the mask, or with ~mask when keep is FALSE:
\* the exception raised and the object built, whose identity is id
MaskResource(obj, mask, keep, id) ==
    IF obj.type = "array"
    THEN IF Len(obj.val) # Len(mask)
         THEN [status |-> "IndexError", obj |-> NoObj]
         ELSE [status |-> "ok",
               obj |-> Obj("array", id, SelectRows(obj.val, mask, keep))]
    ELSE IF obj.type = "frame"
    THEN IF Len(obj.val) # Len(mask)
         THEN [status |-> "ValueError", obj |-> NoObj]
         ELSE [status |-> "ok",
               obj |-> Obj("frame", id, SelectRows(obj.val, mask, keep))]
    ELSE IF obj.type = "json"
    THEN [status |-> "ok", obj |-> Obj("json", id, ZipRows(obj.val, mask, keep))]
    ELSE [status |-> "ValueError", obj |-> NoObj]

\* merging.update_nrows
UpdateNrows(resource, obj) ==
    IF "format" \notin DOMAIN resource
    THEN [status |-> "KeyError", record |-> resource]
    ELSE IF resource.format = "npy"
    THEN [status |-> "ok",
          record |-> [resource EXCEPT !.nrows = Len(obj.val)]]
    ELSE [status |-> "ok", record |-> resource]

\* name.split(".")[-1]: what follows the last dot, the whole string when
\* it has no dot
LastPart(str) ==
    LET dots == {i \in 1..Len(str) : SubSeq(str, i, i) = "."}
    IN IF dots = {} THEN str
       ELSE SubSeq(str, (CHOOSE i \in dots : \A j \in dots : j <= i) + 1,
                   Len(str))

\* name[: -len(last) - 1]
RestOf(str, last) ==
    IF Len(str) - Len(last) - 1 <= 0 THEN ""
    ELSE SubSeq(str, 1, Len(str) - Len(last) - 1)

\* str.replace(old, new): every occurrence of old, from the left, those
\* inside the part after the last dot included
RECURSIVE StrReplace(_, _, _)
StrReplace(str, old, new) ==
    IF old = ""
    THEN IF str = "" THEN new
         ELSE new \o SubSeq(str, 1, 1)
                  \o StrReplace(SubSeq(str, 2, Len(str)), old, new)
    ELSE IF Len(str) < Len(old) THEN str
    ELSE IF SubSeq(str, 1, Len(old)) = old
    THEN new \o StrReplace(SubSeq(str, Len(old) + 1, Len(str)), old, new)
    ELSE SubSeq(str, 1, 1) \o StrReplace(SubSeq(str, 2, Len(str)), old, new)

\* metadata[key].replace(rest, rest + suffix) on a name, a path or a group
Replace(str, rest, suffix) == StrReplace(str, rest, rest \o suffix)

\* merging.add_resource_suffix: the record is changed in place
AddResourceSuffix(metadata, suffix) ==
    IF suffix = "" THEN [status |-> "ok", record |-> metadata]
    ELSE IF LastPart(metadata.name) \notin KindNames
    THEN [status |-> "ValueError", record |-> metadata]
    ELSE LET rest == RestOf(metadata.name, LastPart(metadata.name))
         IN [status |-> "ok",
             record |-> [metadata EXCEPT
                           !.name = Replace(@, rest, suffix),
                           !.path = Replace(@, rest, suffix),
                           !.group = Replace(@, rest, suffix)]]

\* the record dicts of the two packages, each under the place it has: the
\* views and the output package hold these very dicts, not copies
RecordsOf(first, other) ==
    [ref \in ({"first"} \X (1..Len(first))) \cup
             ({"second"} \X (1..Len(other))) |->
        IF ref[1] = "first" THEN first[ref[2]] ELSE other[ref[2]]]

\* the places of the records of the group called label, in order
GroupRefs(tag, res, label) ==
    LET kept == {i \in 1..Len(res) : Get(res[i], "group") = label}
    IN [k \in 1..Cardinality(kept) |->
           <<tag, CHOOSE i \in kept : Cardinality({j \in kept : j <= i}) = k>>]

\* the list comprehensions calling add_resource_suffix on each record
RECURSIVE SuffixRecords(_, _, _, _)
SuffixRecords(records, refs, k, suffix) ==
    IF k > Len(refs) THEN [status |-> "ok", records |-> records]
    ELSE LET done == AddResourceSuffix(records[refs[k]], suffix)
         IN IF done.status # "ok"
            THEN [status |-> done.status, records |-> records]
            ELSE SuffixRecords([records EXCEPT ![refs[k]] = done.record],
                               refs, k + 1, suffix)

\* the list comprehensions calling mask_resource on each data object
RECURSIVE MaskObjects(_, _, _, _, _)
MaskObjects(objs, mask, keep, k, made) ==
    IF k > Len(objs) THEN [status |-> "ok", data |-> made]
    ELSE LET done == MaskResource(objs[k], mask, keep,
                                  <<"merged", Len(made) + 1>>)
         IN IF done.status # "ok"
            THEN [status |-> done.status, data |-> made]
            ELSE MaskObjects(objs, mask, keep, k + 1, Append(made, done.obj))

\* the loop calling update_nrows on each record of the output
RECURSIVE UpdateRecords(_, _, _, _)
UpdateRecords(records, refs, dat, k) ==
    IF k > Len(refs) THEN [status |-> "ok", records |-> records]
    ELSE LET done == UpdateNrows(records[refs[k]], dat[k])
         IN IF done.status # "ok"
            THEN [status |-> done.status, records |-> records]
            ELSE UpdateRecords([records EXCEPT ![refs[k]] = done.record],
                               refs, dat, k + 1)

\* the data objects at the places refs
ObjectsAt(first, other, refs) ==
    [k \in 1..Len(refs) |->
        IF refs[k][1] = "first" THEN first[refs[k][2]]
        ELSE other[refs[k][2]]]

\* what len() raises on a data object, "ok" when it has a length
LenStatus(obj) == IF obj.type \in {"array", "frame"} THEN "ok"
                  ELSE "TypeError"

\* merging.merge_datapackages_with_mask on the package (res, dat) and on
\* other, or on (res, dat) twice when same: the exception raised, the
\* records of the two packages after the call, the lists of the output
MergeRun(res, dat, other, first_label, second_label, same, mask) ==
    LET add_suffix == first_label = second_label
        res2 == IF same THEN res ELSE other.resources
        dat2 == IF same THEN dat ELSE other.data
        first_dp == GroupRefs("first", res, first_label)
        second_dp == GroupRefs(IF same THEN "first" ELSE "second", res2,
                               second_label)
        records == RecordsOf(res, other.resources)
        first_data == ObjectsAt(dat, other.data, first_dp)
        second_data == ObjectsAt(dat, other.data, second_dp)
        raised(exc, recs) == [status |-> exc, records |-> recs,
                              resources |-> <<>>, data |-> <<>>]
        s1 == SuffixRecords(records, first_dp, 1,
                            IF add_suffix THEN "_true" ELSE "")
        s2 == SuffixRecords(s1.records, second_dp, 1,
                            IF add_suffix THEN "_false" ELSE "")
        m1 == MaskObjects(first_data, mask, TRUE, 1, <<>>)
        m2 == MaskObjects(second_data, mask, FALSE, 1, m1.data)
        refs == first_dp \o second_dp
        u == UpdateRecords(s2.records, refs, m2.data, 1)
    IN IF first_label \notin Range(Groups(res))
       THEN raised("ValueError", records)
       ELSE IF second_label \notin Range(Groups(res2))
       THEN raised("ValueError", records)
       ELSE IF LenStatus(first_data[1]) # "ok"
       THEN raised("TypeError", records)
       ELSE IF ~(Len(first_data[1].val) = Len(first_data[1].val)
                 /\ Len(first_data[1].val) = Len(mask))
       THEN raised("LengthMismatch", records)
       ELSE IF \E k \in 1..Len(first_dp) :
                   records[first_dp[k]].profile = "interface"
       THEN raised("ValueError", records)
       ELSE IF \E k \in 1..Len(second_dp) :
                   records[second_dp[k]].profile = "interface"
       THEN raised("ValueError", records)
       ELSE IF s1.status # "ok" THEN raised(s1.status, s1.records)
       ELSE IF s2.status # "ok" THEN raised(s2.status, s2.records)
       ELSE IF m1.status # "ok" THEN raised(m1.status, s2.records)
       ELSE IF m2.status # "ok" THEN raised(m2.status, s2.records)
       ELSE IF u.status # "ok" THEN raised(u.status, u.records)
       ELSE [status |-> "ok", records |-> u.records,
             resources |-> [k \in 1..Len(refs) |-> u.records[refs[k]]],
             data |-> m2.data]

----------------------------------------------------------------------------
(* SpecMerge: two packages in memory, merged again and again.  The        *)
(* first holds a persistent vector, called X or data, and the dynamic     *)
(* vector Y, the second the indices of a group of that name and of Y.     *)

MaxMask == 2        \* longest mask and longest array merged

\* the names the persistent vector is given
VectorNames == {"X", "data"}
MergeLabels == VectorNames \cup {"Y", "W"}
Masks == UNION {[1..n -> BOOLEAN] : n \in 1..MaxMask}

\* an array of nrows rows whose values start at base
RowsFrom(nrows, base) == [i \in 1..nrows |-> base + i]

\* a metadata table of nrows rows and a JSON list of nrows items
TableOfRows(nrows) == [i \in 1..nrows |-> FrameRow(i, "p", "u")]
ListOfItems(nrows) == [i \in 1..nrows |-> 30 + i]

\* the record that add_csv_metadata or add_json_metadata appends when it
\* is called with further keywords: kwargs.update(...) lays the fixed keys
\* over them
WithKeywords(record, kwargs) == record @@ kwargs

\* what the second package holds after its arrays: nothing, or one
\* metadata resource m put into the group Y by a group keyword, with or
\* without a format keyword
MergeMetadata(nrows) ==
    {[resources |-> <<>>, data |-> <<>>],
     [resources |-> << WithKeywords(CsvResource("m", << <<"Y", "row">> >>),
                                    [group |-> "Y"]) >>,
      data |-> << Obj("frame", <<"m", 1>>, TableOfRows(nrows)) >>],
     [resources |-> << WithKeywords(CsvResource("m", << <<"Y", "row">> >>),
                                    [group |-> "Y", format |-> "csv"]) >>,
      data |-> << Obj("frame", <<"m", 1>>, TableOfRows(nrows)) >>],
     [resources |-> << WithKeywords(JsonResource("m", "Y"),
                                    [group |-> "Y", format |-> "json"]) >>,
      data |-> << Obj("json", <<"m", 1>>, ListOfItems(nrows)) >>]}

InitMerge ==
    /\ cover = NoCover
    /\ stream = NoStream
    /\ fsKind = "memory"
    /\ fsClosed = FALSE
    /\ finalized = FALSE
    /\ modified = {}
    /\ fdp = NoView
    /\ finalizeDone = FALSE
    /\ merged = NoMerge
    /\ \E g \in VectorNames, nx \in 1..MaxMask, ny \in 1..MaxMask,
          n \in 1..MaxMask :
         /\ resources = << NumpyResource(g \o ".indices", g, "indices", nx),
                           NumpyResource(g \o ".data", g, "data", nx),
                           NumpyResource("Y.indices", "Y", "indices", ny),
                           InterfaceResource("Y", ny) >>
         /\ data = << Obj("array", <<g \o ".indices", 1>>,
                          Indices(RowsFrom(nx, 0), RowsFrom(nx, 0))),
                      Obj("array", <<g \o ".data", 1>>, RowsFrom(nx, 0)),
                      Obj("array", <<"Y.indices", 1>>,
                          Indices(RowsFrom(ny, 0), RowsFrom(ny, 0))),
                      Obj("interface", <<"Y.data", 1>>, NoVal) >>
         /\ \E meta \in MergeMetadata(n) :
              second =
                [resources |->
                    << NumpyResource(g \o ".indices", g, "indices", n),
                       NumpyResource("Y.indices", "Y", "indices", n) >>
                    \o meta.resources,
                 data |->
                    << Obj("array", <<g \o ".indices", 2>>,
                           Indices(RowsFrom(n, 10), RowsFrom(n, 10))),
                       Obj("array", <<"Y.indices", 2>>,
                           Indices(RowsFrom(n, 20), RowsFrom(n, 20))) >>
                    \o meta.data]

\* the records of a package after the call
RecordsAfter(records, tag, n) == [i \in 1..n |-> records[<<tag, i>>]]

\* one call of merge_datapackages_with_mask, output_fs left at None: the
\* finalize_serialization of the output raises ValueError, which is caught
Merge ==
    \E first_label \in MergeLabels, second_label \in MergeLabels,
       same \in BOOLEAN, mask \in Masks :
        LET run == MergeRun(resources, data, second, first_label,
                            second_label, same, mask)
        IN /\ resources' = RecordsAfter(run.records, "first", Len(resources))
           /\ second' = [second EXCEPT
                           !.resources = RecordsAfter(run.records, "second",
                                                      Len(@))]
           /\ merged' = [status |-> run.status, resources |-> run.resources,
                         data |-> run.data]
           /\ UNCHANGED <<stream, cover, fsKind, fsClosed, data, finalized, modified, fdp,
                          finalizeDone>>

NextMerge == Merge

SpecMerge == InitMerge /\ [][NextMerge]_dpVars

----------------------------------------------------------------------------
(* Claims on SpecMerge *)

\* the arguments of a call: the two labels, whether the second package is
\* the first one, the mask
MergeArgs == MergeLabels \X MergeLabels \X BOOLEAN \X Masks

\* the call with the arguments a in the present state
MergeOf(a) == MergeRun(resources, data, second, a[1], a[2], a[3], a[4])

\* the data objects of the two groups named by the arguments a
FirstData(a) ==
    ObjectsAt(data, second.data, GroupRefs("first", resources, a[1]))
SecondData(a) ==
    IF a[3]
    THEN ObjectsAt(data, second.data, GroupRefs("first", resources, a[2]))
    ELSE ObjectsAt(data, second.data,
                   GroupRefs("second", second.resources, a[2]))

\* C7: a merge that succeeds returns the arrays of the first group with the
\* rows where the mask is true, then the arrays of the second group with the
\* rows where the mask is false, each in its order, and every record of an
\* array of the output has the number of rows kept as its nrows, so that
\* the nrows of a first record and of a second record add up to len(mask)
C7_MergeRows ==
    \A a \in MergeArgs :
        LET run == MergeOf(a)
            n1 == Len(FirstData(a))
            n2 == Len(SecondData(a))
        IN run.status = "ok" =>
            /\ Len(run.resources) = n1 + n2
            /\ Len(run.data) = n1 + n2
            /\ \A k \in 1..n1 :
                 run.data[k].val = SelectRows(FirstData(a)[k].val, a[4], TRUE)
            /\ \A k \in 1..n2 :
                 run.data[n1 + k].val =
                     SelectRows(SecondData(a)[k].val, a[4], FALSE)
            /\ \A k \in 1..(n1 + n2) :
                 run.data[k].type = "array" =>
                     run.resources[k].nrows = Len(run.data[k].val)
            /\ run.resources[1].nrows + run.resources[n1 + 1].nrows
                   = Len(a[4])

\* C8: when both groups exist and hold arrays only, the call raises
\* LengthMismatch and returns no package unless the mask, the first array of
\* the first group and the first array of the second group have one length
C8_LengthMismatch ==
    \A a \in MergeArgs :
        LET run == MergeOf(a)
        IN (/\ FirstData(a) # <<>>
            /\ SecondData(a) # <<>>
            /\ \A k \in 1..Len(FirstData(a)) : FirstData(a)[k].type = "array"
            /\ \A k \in 1..Len(SecondData(a)) :
                   SecondData(a)[k].type = "array"
            /\ ~(/\ Len(a[4]) = Len(FirstData(a)[1].val)
                 /\ Len(a[4]) = Len(SecondData(a)[1].val)))
           => /\ run.status = "LengthMismatch"
              /\ run.resources = <<>>
              /\ run.data = <<>>

----------------------------------------------------------------------------
(* Claims on SpecDirty *)

\* the (record, object) pairs of a package, in order
Pairs(res, dat) == [i \in 1..Len(res) |-> <<res[i], dat[i]>>]

\* the name_or_index arguments that resolve to one record
Resolving ==
    {a \in NameOrIndexArgs(Len(resources)) :
        GetIndexStatus(resources, a) = "ok"}

\* C11: while the dirty set is not empty del_resource and del_resource_group
\* raise PotentialInconsistency and leave both lists and the backend alone;
\* with the dirty set write_modified leaves, the same call removes the record
\* and the data object at its position
C11_DeleteNeedsClean ==
    LET w == WriteModifiedRun(resources, data, modified, TRUE)
    IN /\ modified # {} =>
            /\ \A a \in NameOrIndexArgs(Len(resources)), removes \in BOOLEAN :
                 LET run == DelResourceRun(resources, data, modified, a,
                                           removes)
                 IN /\ run.status = "PotentialInconsistency"
                    /\ run.res = resources
                    /\ run.dat = data
                    /\ run.removed = {}
            /\ \A name \in GroupNames, removes \in BOOLEAN :
                 LET run == DelResourceGroupRun(resources, data, modified,
                                                name, removes)
                 IN /\ run.status = "PotentialInconsistency"
                    /\ run.res = resources
                    /\ run.dat = data
                    /\ run.removed = {}
       /\ w.status = "ok" =>
            /\ w.modified = {}
            /\ \A a \in Resolving :
                 LET run == DelResourceRun(resources, data, w.modified, a,
                                           TRUE)
                     index == GetIndex(resources, a)
                 IN /\ run.status = "ok"
                    /\ Len(run.res) = Len(run.dat)
                    /\ Pairs(run.res, run.dat)
                         = RemoveAt(Pairs(resources, data), index)
            /\ \A name \in GroupNames :
                 LET run == DelResourceGroupRun(resources, data, w.modified,
                                                name, TRUE)
                 IN /\ run.status = "ok"
                    /\ Len(run.res) = Len(run.dat)
                    /\ Pairs(run.res, run.dat)
                         = SelectSeq(Pairs(resources, data),
                                     LAMBDA p : Get(p[1], "group") # name)

\* a record was deleted after reset_index had set the row column to 0 and
\* write_modified had emptied the dirty set
C11_Witness ==
    /\ modified = {}
    /\ Len(resources) = 2
    /\ \E i \in 1..Len(resources) :
         /\ resources[i].name = "X.indices"
         /\ data[i].val[1].row = 0

\* C12: a write_modified that returns, which is the only step emptying the
\* dirty set, has written the present contents of the resources at the
\* positions in the dirty set and of no other, and leaves the resource list
\* and the data list as they were
C12_WritesDirtyOnly ==
    [][(modified # {} /\ modified' = {}) =>
          /\ WriteModifiedRun(resources, data, modified, TRUE).status = "ok"
          /\ WriteModifiedRun(resources, data, modified, TRUE).written
               = {<<resources[i + 1].path, data[i + 1].val>> : i \in modified}
          /\ WriteModifiedRun(resources, data, modified, TRUE).modified = {}
          /\ resources' = resources
          /\ data' = data]_dpVars

\* write_modified has emptied the dirty set that reindex had filled: the
\* ids of the table are no longer those it was added with
C12_Witness ==
    /\ modified = {}
    /\ Len(resources) = 3
    /\ data[3].val \notin DirtyFrames

\* C13: a reset_index that returns adds to the dirty set the positions of
\* the indices resources named by valid_for and nothing else, not the
\* position of the table; a reindex that returns adds those positions and
\* the position of the table
C13_DirtyPositions ==
    \A metadata_name \in IndexMetadataNames :
        LET position == PositionOf(metadata_name) - 1
            named == {c[1] - 1 : c \in NamedColumns(metadata_name)}
            reset == ResetIndexRun(resources, data, Ids(fdp.data), modified,
                                   finalized, metadata_name)
        IN /\ reset.status = "ok" =>
                /\ reset.modified = modified \cup named
                /\ position \in reset.modified => position \in modified
           /\ \A data_iterable \in DataIterables, fields \in FieldsArgs :
                LET run == ReindexRun(resources, data, Ids(fdp.data),
                                      modified, metadata_name, data_iterable,
                                      fields, "id")
                IN run.status = "ok" =>
                     run.modified = modified \cup named \cup {position}

\* reindex has marked the indices array and the table, and nothing else
C13_Witness ==
    /\ Len(resources) = 3
    /\ modified = {0, 2}
    /\ data[3].val \notin DirtyFrames

----------------------------------------------------------------------------
(* Claims on SpecDirty: the exceptions of reindex *)

\* the table a reindex through metadata_name reads
TableOf(metadata_name) == data[PositionOf(metadata_name)].val

\* the number of records of data_iterable with the key of row under fields
Matches(data_iterable, fields, row) ==
    Cardinality({j \in 1..Len(data_iterable) :
                    \A k \in 1..Len(fields) :
                        Get(data_iterable[j], fields[k]) = row[fields[k]]})

\* the fields a call with the argument fields_arg matches on
MatchFields(fields_arg) ==
    IF fields_arg.given THEN fields_arg.names ELSE <<"a", "c">>

\* two records of data_iterable have one key under fields
SharedKey(data_iterable, fields) ==
    \E j, k \in 1..Len(data_iterable) :
        /\ j # k
        /\ \A f \in 1..Len(fields) :
              Get(data_iterable[j], fields[f]) = Get(data_iterable[k], fields[f])

----------------------------------------------------------------------------
(* Claims on Spec: the arguments of the add_* methods *)

\* a call for the group name gets past _prepare_modifications and
\* _prepare_name
Accepted(name) ==
    /\ PrepareModifications(resources, data, finalized) = "ok"
    /\ PrepareName(name, resources) = "ok"

\* flip arrays of every length up to one more than nrows, of both element
\* types, with every choice of rows flipped
FlipInputs(nrows) ==
    {FlipArray(dtype, vals) :
        dtype \in {"bool", "int"},
        vals \in UNION {[1..n -> 0..1] : n \in 0..(nrows + 1)}}

\* the exceptions C15 asks for when flip goes with nrows indices
FlipErrors(flip, nrows) ==
    (IF flip.dtype # "bool" THEN {"WrongDatatype"} ELSE {})
        \cup (IF Len(flip.vals) # nrows THEN {"ShapeMismatch"} ELSE {})

\* C15: each of the four add_* methods for arrays, called with a flip array
\* that is not boolean or not as long as the indices array, raises
\* WrongDatatype or ShapeMismatch accordingly, whatever the array holds
C15_FlipValidated ==
    \A name \in GroupNames, flip \in FlipInputs(MaxRows) :
        (Accepted(name) /\ FlipErrors(flip, MaxRows) # {}) =>
            /\ AddPersistentVectorRun(Start, fsKind, finalized, TRUE, name,
                                      MaxRows, NoArray, NoArray, flip,
                                      FALSE).status
                 \in FlipErrors(flip, MaxRows)
            /\ AddPersistentArrayRun(Start, fsKind, finalized, TRUE, name,
                                     MaxRows, DataArray(2, MaxRows), flip,
                                     FALSE).status
                 \in FlipErrors(flip, MaxRows)
            /\ AddDynamicVectorRun(Start, fsKind, finalized, TRUE, name,
                                   MaxRows, flip, FALSE).status
                 \in FlipErrors(flip, MaxRows)
            /\ AddDynamicArrayRun(Start, fsKind, finalized, TRUE, name,
                                  MaxRows, flip, FALSE).status
                 \in FlipErrors(flip, MaxRows)

\* distributions arrays of every length up to one more than nrows, with
\* every uncertainty_type from 0 to 2 in every row
DistributionsInputs(nrows) ==
    {DistributionsArray(ut) :
        ut \in UNION {[1..n -> 0..2] : n \in 0..(nrows + 1)}}

\* the run has added the resource name.distributions: a record and, at its
\* position, an array
HasDistributions(run, name) ==
    \E i \in 1..Len(run.res) :
        /\ run.res[i].name = name \o ".distributions"
        /\ i <= Len(run.dat)
        /\ run.dat[i].type = "array"

\* C16: add_persistent_vector with a distributions array adds the resource
\* X.distributions exactly when some row has an uncertainty_type of 2 or
\* more; when no row has, it adds neither record nor object and raises
\* nothing
C16_DistributionsIfUncertain ==
    \A name \in GroupNames, dist \in DistributionsInputs(MaxRows),
       d \in {NoArray, DataArray(1, MaxRows)} :
        LET run == AddPersistentVectorRun(Start, fsKind, finalized, TRUE,
                                          name, MaxRows, d, dist, NoArray,
                                          FALSE)
            uncertain == \E i \in 1..Len(dist.ut) : dist.ut[i] >= 2
            added == 1 + (IF d.given THEN 1 ELSE 0)
        IN Accepted(name) =>
            /\ ~uncertain =>
                 /\ run.status = "ok"
                 /\ ~HasDistributions(run, name)
                 /\ Len(run.res) = Len(resources) + added
                 /\ Len(run.dat) = Len(data) + added
            /\ run.status = "ok" => (HasDistributions(run, name) <=> uncertain)
            /\ (uncertain /\ Len(dist.ut) = MaxRows) =>
                 /\ run.status = "ok"
                 /\ Len(run.res) = Len(resources) + added + 1

\* the vector X was added with its distributions, the vector Y without
C16_Witness ==
    /\ \E i \in 1..Len(resources) :
         /\ resources[i].name = "X.distributions"
         /\ data[i].type = "array"
    /\ \E i \in 1..Len(resources) : resources[i].name = "Y.indices"
    /\ \A i \in 1..Len(resources) : resources[i].name # "Y.distributions"

\* the record r is one of the group name: its name is the group, a dot and
\* a kind, and its nrows is that of nrows indices
Appended(r, name, nrows) ==
    /\ r.group = name
    /\ \E kind \in KindNames : r.name = name \o "." \o kind
    /\ r.nrows = nrows

\* every record after the first n of res is one of the group name
AllAppended(res, n, name, nrows) ==
    \A i \in (n + 1)..Len(res) : Appended(res[i], name, nrows)

\* C17: every record that one of the four add_* methods for arrays appends
\* for the group G, whether it returns or raises, has the group G, the name
\* G.kind and the number of rows of the indices array as nrows, with or
\* without an nrows keyword of another value
C17_AppendedRecords ==
    \A name \in GroupNames, nrows_kw \in NrowsKeywords(MaxRows),
       flip \in {NoArray, FlipArray("bool", Rows(MaxRows, 0, 1))} :
        LET nrows == KwargsUpdate(nrows_kw, MaxRows)
            n == Len(resources)
        IN /\ \A d \in {NoArray, DataArray(1, MaxRows)},
                 dist \in {NoArray, DistributionsArray(Rows(MaxRows, 1, 2))} :
                 AllAppended(
                     AddPersistentVectorRun(Start, fsKind, finalized, TRUE,
                                            name, nrows, d, dist, flip,
                                            FALSE).res,
                     n, name, MaxRows)
           /\ \A d \in DataArrays(MaxRows) :
                 AllAppended(
                     AddPersistentArrayRun(Start, fsKind, finalized, TRUE,
                                           name, nrows, d, flip, FALSE).res,
                     n, name, MaxRows)
           /\ AllAppended(
                  AddDynamicVectorRun(Start, fsKind, finalized, TRUE, name,
                                      nrows, flip, FALSE).res,
                  n, name, MaxRows)
           /\ AllAppended(
                  AddDynamicArrayRun(Start, fsKind, finalized, TRUE, name,
                                     nrows, flip, FALSE).res,
                  n, name, MaxRows)

\* the package holds the three records of a dynamic vector Y added with
\* its flip array
C17_Witness ==
    /\ Len(resources) = 3
    /\ resources[1].name = "Y.indices"
    /\ resources[2].name = "Y.flip"
    /\ resources[3].name = "Y.data"
    /\ resources[3].profile = "interface"
    /\ \A i \in 1..3 : Appended(resources[i], "Y", MaxRows)

----------------------------------------------------------------------------
(* Claims on Spec: the groups of the package *)

\* C18: whatever add_*, del_resource and del_resource_group calls were
\* made, the ones that raised included, every group label found in the
\* resource list has a member record of kind indices
C18_GroupHasIndices ==
    \A i \in 1..Len(resources) :
        Get(resources[i], "group") # None =>
            \E j \in 1..Len(resources) :
                /\ Get(resources[j], "group") = Get(resources[i], "group")
                /\ Get(resources[j], "kind") = "indices"

\* the positions of the records carrying the group label g
Carrying(g) == {i \in 1..Len(resources) : Get(resources[i], "group") = g}

\* the position at which the label g is met first
FirstOccurrence(g) ==
    CHOOSE i \in Carrying(g) : \A j \in Carrying(g) : i <= j

\* C19: the groups mapping has one key for each group label of the
\* resource list, in the order in which the labels are first met; a record
\* without a group gives no key; the view under a label holds exactly the
\* records carrying the label, in source order, with their data objects
C19_GroupsMapping ==
    LET labels == Groups(resources)
        keys == 1..Len(labels)
    IN /\ \A a, b \in keys : a # b => labels[a] # labels[b]
       /\ Range(labels) =
              {Get(resources[i], "group") : i \in 1..Len(resources)} \ {None}
       /\ \A a, b \in keys :
              a < b => FirstOccurrence(labels[a]) < FirstOccurrence(labels[b])
       /\ (Len(resources) = Len(data)) =>
              \A a \in keys :
                  LET view == FilterByAttributeRun(resources, data, "group",
                                                   labels[a])
                  IN /\ Len(view.resources) = Cardinality(Carrying(labels[a]))
                     /\ Len(view.data) = Cardinality(Carrying(labels[a]))
                     /\ \A i \in Carrying(labels[a]) :
                           LET k == Cardinality({j \in Carrying(labels[a]) :
                                                    j <= i})
                           IN /\ view.resources[k] = resources[i]
                              /\ view.data[k] = data[i]

\* the group Y was added before the group X, a record without a group
\* between them
C19_Witness ==
    /\ Groups(resources) = << "Y", "X" >>
    /\ Len(resources) = 3
    /\ Get(resources[2], "group") = None

----------------------------------------------------------------------------
(* Claims on SpecView: the slots of a view and of its source *)

\* what an object holds, whichever object it is
ValueOf(o) == [type |-> o.type, val |-> o.val]

\* the view holds at k the record and the Proxy that the package holds at
\* i, and the name of the record resolves to these positions
SharedProxy(i, k) ==
    /\ fdp.resources[k] = resources[i]
    /\ fdp.data[k] = data[i]
    /\ IsProxy(data[i])
    /\ GetIndexStatus(resources, ByName(resources[i].name)) = "ok"
    /\ GetIndexStatus(fdp.resources, ByName(resources[i].name)) = "ok"

\* C20: while a view and its proxy-loaded source both hold the Proxy of a
\* resource, get_resource through the view replaces the slot of the view
\* only and get_resource through the source the slot of the source only;
\* the other object can realize its Proxy afterwards, and in both orders
\* the two calls return equal values.
C20_IndependentSlots ==
    \A i \in 1..Len(resources), k \in 1..Len(fdp.resources) :
        (Len(data) = Len(resources) /\ SharedProxy(i, k)) =>
            LET name == ByName(resources[i].name)
                v == FdpGetResourceRun(data, fdp, name)
                vs == GetResourceRun(resources, v.data, Ids(v.fdp.data),
                                     name)
                s == GetResourceRun(resources, data, Ids(fdp.data), name)
                sv == FdpGetResourceRun(s.dat, fdp, name)
            IN /\ v.out.status = "ok" /\ v.out.invoked = 1
               /\ ~IsProxy(v.out.obj)
               /\ v.fdp.data[k] = v.out.obj
               /\ \A j \in 1..Len(fdp.data) \ {k} :
                     v.fdp.data[j] = fdp.data[j]
               /\ v.fdp.resources = fdp.resources
               /\ v.data = data
               /\ vs.out.status = "ok" /\ vs.out.invoked = 1
               /\ vs.dat[i] = vs.out.obj
               /\ s.out.status = "ok" /\ s.out.invoked = 1
               /\ ~IsProxy(s.out.obj)
               /\ s.dat[i] = s.out.obj
               /\ \A j \in 1..Len(data) \ {i} : s.dat[j] = data[j]
               /\ sv.out.status = "ok" /\ sv.out.invoked = 1
               /\ sv.fdp.data[k] = sv.out.obj
               /\ sv.data = s.dat
               /\ ValueOf(v.out.obj) = ValueOf(s.out.obj)
               /\ ValueOf(vs.out.obj) = ValueOf(s.out.obj)
               /\ ValueOf(sv.out.obj) = ValueOf(v.out.obj)
               /\ vs.out.obj.id # v.out.obj.id
               /\ sv.out.obj.id # s.out.obj.id

\* a loaded package and a view of it: the view has realized one Proxy that
\* the package still holds, the package another that the view still holds
C20_Witness ==
    /\ resources = LoadedResources
    /\ \E i \in 1..Len(data), k \in 1..Len(fdp.data) :
          /\ fdp.resources[k] = resources[i]
          /\ IsProxy(data[i])
          /\ ~IsProxy(fdp.data[k])
          /\ ValueOf(fdp.data[k]) = [type |-> data[i].reads, val |-> data[i].val]
    /\ \E i \in 1..Len(data), k \in 1..Len(fdp.data) :
          /\ fdp.resources[k] = resources[i]
          /\ IsProxy(fdp.data[k])
          /\ ~IsProxy(data[i])
          /\ ValueOf(data[i]) = [type |-> fdp.data[k].reads,
                                 val |-> fdp.data[k].val]

----------------------------------------------------------------------------
(* Claims on SpecMerge: the records and objects of the output *)

\* the places, in the two packages, of the records of the two groups named
\* by the arguments a
FirstRefs(a) == GroupRefs("first", resources, a[1])
SecondRefs(a) ==
    IF a[3] THEN GroupRefs("first", resources, a[2])
    ELSE GroupRefs("second", second.resources, a[2])

\* the record at the place ref before the call
RecordAt(ref) == RecordsOf(resources, second.resources)[ref]

\* the record r is the one of kind kind in the group g
Suffixed(r, g, kind) ==
    /\ r.group = g
    /\ r.name = g \o "." \o kind
    /\ r.path = g \o "." \o kind \o ".npy"

\* the record r has the name, the path and the group of the record from
\* which it comes
CarriedOver(r, from) ==
    /\ r.group = from.group
    /\ r.name = from.name
    /\ r.path = from.path

\* C21: a merge of two groups with one label L returns the records of the
\* first group with group L_true, name L_true.kind and path
\* L_true.kind.npy, those of the second with L_false in the same places,
\* so that no two records of the output have one name; a merge of two
\* groups with different labels returns names, paths and groups as they
\* were
C21_SuffixedNames ==
    \A a \in MergeArgs :
        LET run == MergeOf(a)
            n1 == Len(FirstRefs(a))
            n2 == Len(SecondRefs(a))
        IN run.status = "ok" =>
            IF a[1] = a[2]
            THEN /\ \A k \in 1..n1 :
                      Suffixed(run.resources[k], a[1] \o "_true",
                               RecordAt(FirstRefs(a)[k]).kind)
                 /\ \A k \in 1..n2 :
                      Suffixed(run.resources[n1 + k], a[2] \o "_false",
                               RecordAt(SecondRefs(a)[k]).kind)
                 /\ \A j, k \in 1..(n1 + n2) :
                      j # k => run.resources[j].name # run.resources[k].name
            ELSE /\ \A k \in 1..n1 :
                      CarriedOver(run.resources[k], RecordAt(FirstRefs(a)[k]))
                 /\ \A k \in 1..n2 :
                      CarriedOver(run.resources[n1 + k],
                                  RecordAt(SecondRefs(a)[k]))

\* the object is a table or a JSON list, no numeric array
IsMetadata(obj) == obj.type \in {"frame", "json"}

\* C22: a merge that succeeds returns every table and every JSON list of
\* the two groups with the rows or items it has in its source package:
\* the mask is not applied to it
C22_MetadataPassedThrough ==
    \A a \in MergeArgs :
        LET run == MergeOf(a)
            n1 == Len(FirstData(a))
            n2 == Len(SecondData(a))
        IN run.status = "ok" =>
            /\ \A k \in 1..n1 :
                 IsMetadata(FirstData(a)[k]) =>
                     run.data[k].val = FirstData(a)[k].val
            /\ \A k \in 1..n2 :
                 IsMetadata(SecondData(a)[k]) =>
                     run.data[n1 + k].val = SecondData(a)[k].val

\* the number of rows that the record and the object at one position of a
\* package agree on
NrowsAgree(record, obj) ==
    (obj.type = "array" /\ "nrows" \in DOMAIN record) =>
        record.nrows = Len(obj.val)

\* C30: whether the merge returns or raises, every record of the two
\* source packages is afterwards what it was before, name, path, group and
\* nrows included, so that the nrows of each source record is still the
\* number of rows of its array
C30_SourcesUnchanged ==
    \A a \in MergeArgs :
        LET run == MergeOf(a)
            first_after == RecordsAfter(run.records, "first", Len(resources))
            second_after == RecordsAfter(run.records, "second",
                                         Len(second.resources))
        IN /\ first_after = resources
           /\ second_after = second.resources
           /\ (\A i \in 1..Len(resources) :
                   NrowsAgree(resources[i], data[i])) =>
                  \A i \in 1..Len(resources) :
                      NrowsAgree(first_after[i], data[i])
           /\ (\A i \in 1..Len(second.resources) :
                   NrowsAgree(second.resources[i], second.data[i])) =>
                  \A i \in 1..Len(second.resources) :
                      NrowsAgree(second_after[i], second.data[i])

----------------------------------------------------------------------------
(* unique_fields.py: greedy_set_cover.  cover holds the arguments data,    *)
(* exclude and raise_error, the locals fields and chosen, and how the call *)
(* stands: "running", "returned", or the exception raised                  *)

MaxRecords == 3      \* longest list of records given to greedy_set_cover

\* the field names of the records next to id, as sorted() orders them
FieldNames == << "a", "b", "c" >>
FieldValues == {1, 2}

\* the place of a field name in the order of str
Rank(field) == CHOOSE k \in 1..Len(FieldNames) : FieldNames[k] = field

\* exclude = set(exclude); exclude.add("id")
Excluded(exclude) == exclude \cup {"id"}

\* {field for obj in data for field in obj if field not in exclude}
FieldsOf(records, exclude) ==
    UNION {DOMAIN records[i] : i \in 1..Len(records)} \ Excluded(exclude)

\* len({obj[field] for obj in data})
DistinctValues(records, field) ==
    Cardinality({records[i][field] : i \in 1..Len(records)})

\* obj[field] raises KeyError for some record and some of the fields
MissingField(records, fields) ==
    \E i \in 1..Len(records), field \in fields : field \notin DOMAIN records[i]

\* values_for_fields(...)[0][1] with ties going to the earlier name
NextFieldEarlier(records, fields) ==
    CHOOSE f \in fields :
        \A g \in fields \ {f} :
            \/ DistinctValues(records, g) < DistinctValues(records, f)
            \/ /\ DistinctValues(records, g) = DistinctValues(records, f)
               /\ Rank(f) < Rank(g)

\* values_for_fields(...)[0][1]: the first of the pairs (count, field)
\* sorted in reverse
NextField(records, fields) ==
    CHOOSE f \in fields :
        \A g \in fields \ {f} :
            \/ DistinctValues(records, g) < DistinctValues(records, f)
            \/ /\ DistinctValues(records, g) = DistinctValues(records, f)
               /\ Rank(g) < Rank(f)

\* coverage(data, chosen)
Coverage(records, chosen) ==
    Cardinality({[field \in chosen |-> records[i][field]] :
                    i \in 1..Len(records)})

\* the records given: every one with the same fields, with or without an
\* id, or the last one without the field c
Record(values, with_id, id, without) ==
    [field \in (Range(FieldNames) \cup (IF with_id THEN {"id"} ELSE {}))
                   \ without |->
        IF field = "id" THEN id ELSE values[field]]

RecordLists ==
    UNION {
        {[i \in 1..n |->
             Record(values[i], with_id, i,
                    IF ragged /\ i = n THEN {"c"} ELSE {})] :
           values \in [1..n -> [Range(FieldNames) -> FieldValues]],
           with_id \in BOOLEAN, ragged \in BOOLEAN} :
        n \in 0..MaxRecords}

ExcludeArgs == {{}, {"c"}}

\* greedy_set_cover up to its loop
GreedySetCoverStart(records, exclude, raise_error) ==
    [data |-> records, exclude |-> exclude, raise_error |-> raise_error,
     fields |-> FieldsOf(records, exclude), chosen |-> {},
     status |-> "running"]

InitCover ==
    /\ fsKind = "memory"
    /\ fsClosed = FALSE
    /\ resources = <<>>
    /\ data = <<>>
    /\ finalized = FALSE
    /\ modified = {}
    /\ fdp = NoView
    /\ finalizeDone = FALSE
    /\ second = NoPackage
    /\ merged = NoMerge
    /\ stream = NoStream
    /\ \E records \in RecordLists, exclude \in ExcludeArgs,
          raise_error \in BOOLEAN :
         cover = GreedySetCoverStart(records, exclude, raise_error)

PackageUntouched ==
    UNCHANGED <<fsKind, fsClosed, resources, data, finalized, modified, fdp,
                finalizeDone, second, merged>>

\* the loop condition is false: return chosen
CoverReturn ==
    /\ cover.status = "running"
    /\ Coverage(cover.data, cover.chosen) = Len(cover.data)
    /\ cover' = [cover EXCEPT !.status = "returned"]
    /\ PackageUntouched
    /\ UNCHANGED stream

\* no field is left: raise NonUnique, or break and return
CoverExhausted ==
    /\ cover.status = "running"
    /\ Coverage(cover.data, cover.chosen) # Len(cover.data)
    /\ cover.fields = {}
    /\ cover' = [cover EXCEPT
                   !.status = IF cover.raise_error THEN "NonUnique"
                              ELSE "returned"]
    /\ PackageUntouched
    /\ UNCHANGED stream

\* one pass of the loop body that moves a field from fields to chosen
CoverChoose ==
    /\ cover.status = "running"
    /\ Coverage(cover.data, cover.chosen) # Len(cover.data)
    /\ cover.fields # {}
    /\ cover' =
         IF MissingField(cover.data, cover.fields)
         THEN [cover EXCEPT !.status = "KeyError"]
         ELSE [cover EXCEPT
                 !.fields = @ \ {NextField(cover.data, cover.fields)},
                 !.chosen = @ \cup {NextField(cover.data, cover.fields)}]
    /\ PackageUntouched
    /\ UNCHANGED stream

NextCover == CoverReturn \/ CoverExhausted \/ CoverChoose

\* the loop is run by one thread with nothing to wait for: a pass that can
\* be made is made
SpecCover == InitCover /\ [][NextCover]_dpVars /\ WF_dpVars(NextCover)

----------------------------------------------------------------------------
(* Claims on SpecCover *)

\* all the records given have the same fields
SameFields ==
    \A i, j \in 1..Len(cover.data) : DOMAIN cover.data[i] = DOMAIN cover.data[j]

\* the fields that may be chosen
Allowed == {f \in Range(FieldNames) : f \notin cover.exclude}

\* how many records differ from all the records before them in some field
\* of fs
Tuples(fs) ==
    Cardinality({i \in 1..Len(cover.data) :
                    \A j \in 1..(i - 1) :
                        \E f \in fs : cover.data[j][f] # cover.data[i][f]})

\* how many values the field f has over the records
Count(f) == Cardinality({v \in FieldValues :
                            \E i \in 1..Len(cover.data) : cover.data[i][f] = v})

\* what the call holds and how it ended
CoverOutcome ==
    /\ cover.status \in {"running", "returned", "NonUnique"}
    /\ cover.chosen \subseteq Allowed
    /\ "id" \notin cover.chosen
    /\ cover.chosen \cap cover.exclude = {}
    /\ cover.status = "returned" =>
          \/ Tuples(cover.chosen) = Len(cover.data)
          \/ ~cover.raise_error /\ cover.chosen = Allowed
    /\ cover.status = "NonUnique" =>
          /\ cover.raise_error
          /\ cover.chosen = Allowed
          /\ Tuples(Allowed) # Len(cover.data)

\* what one pass of the loop does
CoverPass ==
    IF Tuples(cover.chosen) = Len(cover.data)
    THEN cover' = [cover EXCEPT !.status = "returned"]
    ELSE IF cover.chosen = Allowed
    THEN /\ cover'.chosen = cover.chosen
         /\ cover'.status # "running"
    ELSE \E f \in Allowed \ cover.chosen :
            /\ cover'.chosen = cover.chosen \cup {f}
            /\ cover'.status = "running"
            /\ \A g \in Allowed \ cover.chosen :
                  \/ Count(g) < Count(f)
                  \/ Count(g) = Count(f) /\ Rank(g) <= Rank(f)

\* C23: greedy_set_cover over records with the same fields ends; each pass
\* of its loop adds the one remaining field with the most distinct values,
\* the later name on a tie, and does so only while the records do not yet
\* differ pairwise on the fields chosen; what it returns holds neither id
\* nor an excluded field; when no field is left it raises NonUnique, or
\* with raise_error false returns every field not excluded
C23_GreedyCover ==
    /\ [](SameFields => CoverOutcome)
    /\ [][SameFields => CoverPass]_dpVars
    /\ (SameFields ~> cover.status # "running")

\* the call has returned the two fields b and c: c was chosen before the
\* field a of as many values, and a was not needed
C23_Witness ==
    /\ cover.status = "returned"
    /\ Len(cover.data) = 3
    /\ cover.chosen = {"b", "c"}
    /\ cover.exclude = {}
    /\ Count("a") = 2
    /\ Count("c") = 2

----------------------------------------------------------------------------
(* SpecInterface: a package created or loaded, filled with vectors and     *)
(* arrays, finalized, its interfaces rehydrated                            *)

NextInterface ==
    \/ AddPersistentVector
    \/ AddDynamicVector
    \/ AddDynamicArray
    \/ FinalizeSerialization
    \/ RehydrateInterface

SpecInterface == Init /\ [][NextInterface]_dpVars

\* the positions of the slots of dat that hold the placeholder, and the
\* k-th of them
Placeholders(dat) == {i \in 1..Len(dat) : dat[i].type = "undefined"}
KthOf(set, k) == CHOOSE i \in set : Cardinality({j \in set : j <= i}) = k

\* the group labels of the slots of dat holding the placeholder, but for
\* the slot skip, in resource order
GroupsOfPlaceholders(dat, skip) ==
    [k \in 1..Cardinality(Placeholders(dat) \ {skip}) |->
        resources[KthOf(Placeholders(dat) \ {skip}, k)].group]

\* rehydrate_interface called with the group label or with the name of the
\* resource at position i replaces that slot of dat and no other, and
\* takes the group of that slot from the list of dehydrated_interfaces
Rehydrates(dat, i) ==
    \A name \in {resources[i].group, resources[i].group \o ".data"} :
        LET run == RehydrateInterfaceRun(resources, dat, Ids(fdp.data),
                                         ByName(name), FALSE)
        IN /\ run.status = "ok"
           /\ Len(run.dat) = Len(dat)
           /\ run.dat[i].type = "interface"
           /\ \A j \in 1..Len(dat) : j # i => run.dat[j] = dat[j]
           /\ DehydratedInterfaces(resources, run.dat, 1)
                  = GroupsOfPlaceholders(dat, i)

\* dehydrated_interfaces lists the groups of the placeholders of dat, and
\* each of them can be rehydrated
ListedAndRehydrated(dat) ==
    /\ DehydratedInterfaces(resources, dat, 1) = GroupsOfPlaceholders(dat, 0)
    /\ \A i \in Placeholders(dat) : Rehydrates(dat, i)

----------------------------------------------------------------------------
(* proxies.py and file_reader: the calls of one Proxy.  file_reader opens  *)
(* the resource and hands the stream to Proxy(func, label, kwargs) under   *)
(* the keyword label; calling the Proxy positions the stream at 0 and then *)
(* calls func on kwargs.  stream holds the bytes of the stream, its        *)
(* position, and for every call made the position func found and the      *)
(* value it returned.                                                      *)

MaxReads == 3        \* most calls of one Proxy
MaxBytes == 3        \* longest stream
Bytes == {1, 2}

Streams == UNION {[1..n -> Bytes] : n \in 0..MaxBytes}

\* stream.seek(offset)
Seek(s, offset) == [s EXCEPT !.pos = offset]

\* func, that is np.load, json.load or pd.read_csv: decodes what the
\* stream holds from its position on, and consumes up to read bytes of it
Func(s, read) ==
    [s EXCEPT
       !.pos = IF s.pos + read > Len(s.content) THEN Len(s.content)
               ELSE s.pos + read,
       !.calls = Append(@, [at |-> s.pos,
                            value |-> SubSeq(s.content, s.pos + 1,
                                             Len(s.content))])]

\* the call without the seek
ProxyCallOnStreamAsLeft(s, read) == Func(s, read)

\* Proxy.__call__
ProxyCallOnStream(s, read) == Func(Seek(s, 0), read)

\* file_reader(proxy=True) opens the stream, at position 0; a buffer that
\* was written to and then given to a Proxy is at its end
InitProxy ==
    /\ fsKind = "memory"
    /\ fsClosed = FALSE
    /\ resources = <<>>
    /\ data = <<>>
    /\ finalized = FALSE
    /\ modified = {}
    /\ fdp = NoView
    /\ finalizeDone = FALSE
    /\ second = NoPackage
    /\ merged = NoMerge
    /\ cover = NoCover
    /\ \E content \in Streams : \E pos \in {0, Len(content)} :
         stream = [content |-> content, pos |-> pos, calls |-> <<>>]

ProxyInvoke ==
    /\ Len(stream.calls) < MaxReads
    /\ \E read \in 0..Len(stream.content) :
         stream' = ProxyCallOnStream(stream, read)
    /\ PackageUntouched
    /\ UNCHANGED cover

NextProxy == ProxyInvoke

SpecProxy == InitProxy /\ [][NextProxy]_dpVars

----------------------------------------------------------------------------
(* Claims on SpecProxy *)

\* C25: the calls of one Proxy over an unchanged stream all return equal
\* results, the whole contents of the stream, whatever position the call
\* before or the opener left: func finds the stream at position 0 in
\* every call.
C25_ProxyRewinds ==
    \A i, j \in 1..Len(stream.calls) :
        /\ stream.calls[i].at = 0
        /\ stream.calls[i].value = stream.calls[j].value
        /\ stream.calls[i].value = stream.content

\* three calls on a stream of three bytes, the last leaving the stream
\* in the middle
C25_Witness ==
    /\ Len(stream.calls) = 3
    /\ Len(stream.content) = 3
    /\ stream.pos = 1

----------------------------------------------------------------------------
(* Claims on Spec: the errors of get_resource *)

\* C26: get_resource with an integer outside 0..len(resources)-1, too large
\* or negative, raises IndexError; with a name no record has it raises
\* KeyError, with a name several records have NonUnique; and in each of
\* these cases the data list is left as it was.
C26_GetResourceErrors ==
    \A name_or_index \in NameOrIndexArgs(Len(resources)) :
        LET run == GetResourceRun(resources, data, Ids(fdp.data),
                                  name_or_index)
            named == IF name_or_index.isint THEN {}
                     ELSE {i \in 1..Len(resources) :
                              resources[i].name = name_or_index.name}
        IN /\ (name_or_index.isint
               /\ (name_or_index.index < 0
                   \/ name_or_index.index >= Len(resources)))
              => run.out.status = "IndexError"
           /\ (~name_or_index.isint /\ named = {})
              => run.out.status = "KeyError"
           /\ (~name_or_index.isint /\ Cardinality(named) > 1)
              => run.out.status = "NonUnique"
           /\ run.out.status # "ok" => run.dat = data

----------------------------------------------------------------------------
(* Claims on SpecIndex: a column named twice by valid_for *)

\* valid_for with every pair kept at its first place only
Deduplicated(valid_for) ==
    SelectPositions(valid_for,
                    {k - 1 : k \in {k \in 1..Len(valid_for) :
                                       \A j \in 1..(k - 1) :
                                           valid_for[j] # valid_for[k]}},
                    1)

\* C27: when the valid_for of the table names the same (resource, column)
\* pair more than once, reset_index rewrites that column once: the call
\* succeeds and leaves the columns as the same call does with the repeated
\* entries removed from valid_for.
C27_DuplicateOnce ==
    \A metadata_name \in {"m", "n"} :
        LET pos == PositionOf(metadata_name)
            valid_for == resources[pos].valid_for
            run == ResetIndexRun(resources, data, Ids(fdp.data), modified,
                                 finalized, metadata_name)
            once == ResetIndexRun([resources EXCEPT ![pos].valid_for =
                                      Deduplicated(valid_for)],
                                  data, Ids(fdp.data), modified, finalized,
                                  metadata_name)
        IN (Deduplicated(valid_for) # valid_for /\ once.status = "ok")
           => /\ run.status = "ok"
              /\ run.dat = once.dat

----------------------------------------------------------------------------
(* Claims on Spec: add_persistent_vector and add_persistent_array raising *)

\* C28: when add_persistent_vector or add_persistent_array raises
\* ShapeMismatch or WrongDatatype, the resource list and the data list are
\* as before the call, without the indices resource of the new group, and
\* the same name can be added again without NonUnique.
C28_RaisingAddsNothing ==
    \A name \in GroupNames, flip \in FlipInputs(MaxRows) \cup {NoArray} :
        LET Untouched(run) ==
                run.status \in {"ShapeMismatch", "WrongDatatype"} =>
                    /\ run.res = resources
                    /\ run.dat = data
                    /\ PrepareName(name, run.res) # "NonUnique"
        IN /\ \A d \in DataArrays(MaxRows) \cup {NoArray},
                 dist \in DistributionsArrays(MaxRows) \cup {NoArray} :
                 Untouched(AddPersistentVectorRun(Start, fsKind, finalized,
                                                  TRUE, name, MaxRows, d,
                                                  dist, flip, FALSE))
           /\ \A d \in DataArrays(MaxRows) :
                 Untouched(AddPersistentArrayRun(Start, fsKind, finalized,
                                                 TRUE, name, MaxRows, d,
                                                 flip, FALSE))

----------------------------------------------------------------------------
(* Claims on SpecIndex: reindex raising *)

\* C29: when reindex raises KeyError (no id column, a table row without a
\* destination record, an indices value that is no id of the table) or
\* NonUnique, every indices column, the metadata tables and the dirty set
\* have their values from before the call.
C29_RaisingReindexKeeps ==
    \A metadata_name \in {"m", "n"}, data_iterable \in DataIterables,
       fields_arg \in FieldsArgs, id_field \in {"id", "x"} :
        LET run == ReindexRun(resources, data, Ids(fdp.data), modified,
                              metadata_name, data_iterable, fields_arg,
                              id_field)
        IN run.status \in {"KeyError", "NonUnique"} =>
              /\ \A c \in AllColumns :
                    ColumnAt(run.dat, c) = ColumnAt(data, c)
              /\ \A i \in Positions :
                    data[i].type = "frame" => run.dat[i].val = data[i].val
              /\ run.modified = modified

====
